---- MODULE Spec2Model ----
(***************************************************************************)
(* Booking transaction engine of RoomBookingPrac: interval and recurrence  *)
(* expansion, conflict strategies, the repository with its snapshot and    *)
(* journal, invertible commands and the bounded undo/redo history of       *)
(* TBookingManager.                                                        *)
(***************************************************************************)
EXTENDS Integers, Sequences, FiniteSets, TLC

VARIABLES Bookings, snapshot, journal, UndoStack, RedoStack, Strat, last, Mutex_, pc, local,
          HistoryMutex_, RepoMutex_, StorageMutex_

repoVars == <<Bookings, snapshot, journal>>
histVars == <<UndoStack, RedoStack>>
(* The history mutex of the manager and the mutexes of the repository and  *)
(* of the storage; 0 when free, else the thread that holds it.             *)
lockVars == <<HistoryMutex_, RepoMutex_, StorageMutex_>>
threadVars == <<Mutex_, pc, local, lockVars>>
vars == <<Bookings, snapshot, journal, UndoStack, RedoStack, Strat, last, Mutex_, pc, local,
          HistoryMutex_, RepoMutex_, StorageMutex_>>

(***************************************************************************)
(* Time.  system_clock::time_point counts ticks; seconds, minutes and      *)
(* hours are multiples of a tick.                                          *)
(***************************************************************************)
TicksPerSecond == 2
Seconds(n) == n * TicksPerSecond
Minutes(n) == 60 * Seconds(n)
Hours(n) == 60 * Minutes(n)

MAX_INSTANCES == 10000
UNDO_LIMIT == 300

(* std::optional<T>: the empty set is nullopt, {v} holds v. *)
Some(v) == {v}
None == {}
ValueOf(o) == CHOOSE v \in o : TRUE

(***************************************************************************)
(* Users of the test suite.                                                *)
(***************************************************************************)
AdminUser == [Id |-> 1, Name |-> "admin", Role |-> "Admin", Priority |-> 100]
ManagerUser == [Id |-> 2, Name |-> "mgr", Role |-> "Manager", Priority |-> 50]
NormalUser == [Id |-> 3, Name |-> "user", Role |-> "User", Priority |-> 10]
OtherUser == [Id |-> 42, Name |-> "other", Role |-> "User", Priority |-> 10]
NoUser == [Id |-> 0, Name |-> "", Role |-> "None", Priority |-> 0]

(* A TBooking value; Id 0 stands for the not yet assigned identifier of a request. *)
TBooking(room, user, start, end, rtype, until, title, desc, att, res, prio) ==
    [Id |-> 0, RoomIdInternal |-> room, UserIdInternal |-> user,
     Start |-> start, End |-> end, RecType |-> rtype, Until |-> until,
     Title |-> title, Description |-> desc, Attendees |-> att,
     Resources |-> res, OwnerPriority |-> prio]

Now == Hours(48)

MakeBooking(room, startOffsetMin, durationMin) ==
    TBooking(room, 3, Now + Minutes(startOffsetMin),
             Now + Minutes(startOffsetMin) + Minutes(durationMin),
             "None", None, "title", "desc", <<>>, <<>>, 0)

(***************************************************************************)
(* Interval and recurrence model.                                          *)
(***************************************************************************)
IntervalsOverlap(a_start, a_end, b_start, b_end) ==
    ~(a_end <= b_start \/ a_start >= b_end)

RECURSIVE GenerateLoopInclusive(_, _, _, _, _, _, _)
GenerateLoopInclusive(b, cur_start, limit, counter, from, to, out) ==
    IF cur_start <= limit /\ counter < MAX_INSTANCES
    THEN LET cur_end == cur_start + (b.End - b.Start)
             out2 == IF IntervalsOverlap(cur_start, cur_end, from, to)
                     THEN Append(out, [b EXCEPT !.Start = cur_start, !.End = cur_end])
                     ELSE out
         IN IF b.RecType = "Daily"
            THEN GenerateLoopInclusive(b, cur_start + Hours(24), limit, counter + 1, from, to, out2)
            ELSE IF b.RecType = "Weekly"
            THEN GenerateLoopInclusive(b, cur_start + Hours(24 * 7), limit, counter + 1, from, to, out2)
            ELSE out2
    ELSE out

RECURSIVE GenerateLoop(_, _, _, _, _, _, _)
GenerateLoop(b, cur_start, limit, counter, from, to, out) ==
    IF cur_start < limit /\ counter < MAX_INSTANCES
    THEN LET cur_end == cur_start + (b.End - b.Start)
             out2 == IF IntervalsOverlap(cur_start, cur_end, from, to)
                     THEN Append(out, [b EXCEPT !.Start = cur_start, !.End = cur_end])
                     ELSE out
         IN IF b.RecType = "Daily"
            THEN GenerateLoop(b, cur_start + Hours(24), limit, counter + 1, from, to, out2)
            ELSE IF b.RecType = "Weekly"
            THEN GenerateLoop(b, cur_start + Hours(24 * 7), limit, counter + 1, from, to, out2)
            ELSE out2
    ELSE out

GenerateInstances(b, from, to) ==
    IF b.RecType = "None"
    THEN IF IntervalsOverlap(b.Start, b.End, from, to) THEN <<b>> ELSE <<>>
    ELSE LET limit == IF b.Until # None /\ ValueOf(b.Until) < to
                      THEN ValueOf(b.Until) ELSE to
         IN GenerateLoop(b, b.Start, limit, 0, from, to, <<>>)

(***************************************************************************)
(* Conflict strategies.  A resolution is                                   *)
(* [ok, SuggestedStart (optional), ToPreempt (sequence of identifiers)].   *)
(***************************************************************************)
Resolution(ok, sugg, pre) == [ok |-> ok, SuggestedStart |-> sugg, ToPreempt |-> pre]

TRejectStrategyResolveClosed(candidate, existing, actor) ==
    IF \E i \in 1..Len(existing) :
           ~(candidate.End < existing[i].Start \/ candidate.Start > existing[i].End)
    THEN Resolution(FALSE, None, <<>>)
    ELSE Resolution(TRUE, None, <<>>)

TRejectStrategyResolve(candidate, existing, actor) ==
    IF \E i \in 1..Len(existing) :
           ~(candidate.End <= existing[i].Start \/ candidate.Start >= existing[i].End)
    THEN Resolution(FALSE, None, <<>>)
    ELSE Resolution(TRUE, None, <<>>)

(* One pass of the for loop of TAutoBumpStrategy: returns <<start, moved>>. *)
RECURSIVE BumpPass(_, _, _, _, _)
BumpPass(start, dur, existing, i, moved) ==
    IF i > Len(existing) THEN <<start, moved>>
    ELSE LET e == existing[i]
         IN IF ~(start + dur <= e.Start \/ start >= e.End)
            THEN BumpPass(e.End, dur, existing, i + 1, TRUE)
            ELSE BumpPass(start, dur, existing, i + 1, moved)

RECURSIVE BumpLoop(_, _, _)
BumpLoop(start, dur, existing) ==
    LET p == BumpPass(start, dur, existing, 1, FALSE)
    IN IF p[2] THEN BumpLoop(p[1], dur, existing) ELSE p[1]

TAutoBumpStrategyResolve(b, existing, actor) ==
    LET start == BumpLoop(b.Start, b.End - b.Start, existing)
    IN IF start # b.Start
       THEN Resolution(TRUE, Some(start), <<>>)
       ELSE Resolution(TRUE, None, <<>>)

RECURSIVE PreemptScan(_, _, _, _, _)
PreemptScan(candidate, existing, actor, i, to_preempt) ==
    IF i > Len(existing) THEN Resolution(TRUE, None, to_preempt)
    ELSE LET e == existing[i]
         IN IF candidate.End <= e.Start \/ candidate.Start >= e.End
            THEN PreemptScan(candidate, existing, actor, i + 1, to_preempt)
            ELSE IF actor.Priority > e.OwnerPriority
            THEN PreemptScan(candidate, existing, actor, i + 1, Append(to_preempt, e.Id))
            ELSE Resolution(FALSE, None, <<>>)

(* Skips an occurrence it may not preempt and preempts the others. *)
TPreemptStrategyResolvePartial(candidate, existing, actor) ==
    LET sel == SelectSeq(existing,
                         LAMBDA e : /\ ~(candidate.End <= e.Start \/ candidate.Start >= e.End)
                                    /\ actor.Priority > e.OwnerPriority)
    IN Resolution(TRUE, None, [i \in 1..Len(sel) |-> sel[i].Id])

TPreemptStrategyResolve(candidate, existing, actor) ==
    PreemptScan(candidate, existing, actor, 1, <<>>)

TQuorumStrategyResolve(candidate, existing, actor, quorum) ==
    IF \E i \in 1..Len(existing) :
           ~(candidate.End <= existing[i].Start \/ candidate.Start >= existing[i].End)
    THEN IF Len(candidate.Attendees) >= quorum
         THEN Resolution(TRUE, None, <<>>)
         ELSE Resolution(FALSE, None, <<>>)
    ELSE Resolution(TRUE, None, <<>>)

RejectStrategy == [kind |-> "Reject", Quorum |-> 0]
AutoBumpStrategy == [kind |-> "AutoBump", Quorum |-> 0]
PreemptStrategy == [kind |-> "Preempt", Quorum |-> 0]
QuorumStrategy(q) == [kind |-> "Quorum", Quorum |-> q]

(* Strat->Resolve: dynamic dispatch over the strategy variants. *)
Resolve(strat, candidate, existing, actor) ==
    IF strat.kind = "Reject" THEN TRejectStrategyResolve(candidate, existing, actor)
    ELSE IF strat.kind = "AutoBump" THEN TAutoBumpStrategyResolve(candidate, existing, actor)
    ELSE IF strat.kind = "Preempt" THEN TPreemptStrategyResolve(candidate, existing, actor)
    ELSE TQuorumStrategyResolve(candidate, existing, actor, strat.Quorum)

(***************************************************************************)
(* Repository.  R is the repository with its storage collaborator:         *)
(* [Bookings (identifier -> booking), snapshot, journal].                  *)
(***************************************************************************)
EpochSeconds(t) == t \div TicksPerSecond

BookingToJson(b) ==
    [id |-> b.Id, room_id |-> b.RoomIdInternal, user_id |-> b.UserIdInternal,
     start |-> EpochSeconds(b.Start), end |-> EpochSeconds(b.End),
     title |-> b.Title, description |-> b.Description,
     recurrence |-> [type |-> b.RecType,
                     until |-> IF b.Until = None THEN None
                               ELSE Some(EpochSeconds(ValueOf(b.Until)))],
     attendees |-> b.Attendees, resources |-> b.Resources]

(* The "bookings" array of the snapshot, as the set of its elements. *)
Persist(B) == {BookingToJson(B[k]) : k \in DOMAIN B}

MaxId(B) == IF DOMAIN B = {} THEN 0
            ELSE CHOOSE m \in DOMAIN B : \A k \in DOMAIN B : k <= m

Put(B, id, b) == [k \in (DOMAIN B) \cup {id} |-> IF k = id THEN b ELSE B[k]]
Erase(B, id) == [k \in (DOMAIN B) \ {id} |-> B[k]]

RepoOf(B, s, j) == [Bookings |-> B, snapshot |-> s, journal |-> j]

NewIdFromCount(B) == Cardinality(DOMAIN B) + 1

NewId(B) == MaxId(B) + 1

(* TRepository::CreateBooking: returns the repository and the new identifier. *)
RepoCreateBooking(R, b) ==
    LET nb == [b EXCEPT !.Id = NewId(R.Bookings)]
        B2 == Put(R.Bookings, nb.Id, nb)
    IN [repo |-> RepoOf(B2, Persist(B2),
                        Append(R.journal, [op |-> "create", booking |-> BookingToJson(nb)])),
        id |-> nb.Id]

(* Journals the booking as it was stored before the update. *)
RepoUpdateBookingJournalsStored(R, b) ==
    LET B2 == Put(R.Bookings, b.Id, b)
        was == IF b.Id \in DOMAIN R.Bookings THEN R.Bookings[b.Id] ELSE b
    IN RepoOf(B2, Persist(B2),
              Append(R.journal, [op |-> "update", booking |-> BookingToJson(was)]))

RepoUpdateBooking(R, b) ==
    LET B2 == Put(R.Bookings, b.Id, b)
    IN RepoOf(B2, Persist(B2),
              Append(R.journal, [op |-> "update", booking |-> BookingToJson(b)]))

RepoRemoveBookingStaleSnapshot(R, id) ==
    RepoOf(Erase(R.Bookings, id), R.snapshot,
           Append(R.journal, [op |-> "remove", id |-> id]))

RepoRemoveBooking(R, id) ==
    LET B2 == Erase(R.Bookings, id)
    IN RepoOf(B2, Persist(B2), Append(R.journal, [op |-> "remove", id |-> id]))

RepoGetBooking(R, id) == IF id \in DOMAIN R.Bookings THEN Some(R.Bookings[id]) ELSE None

(* The orders in which ListAll may enumerate the unordered map. *)
ListAllOrders(B) ==
    LET n == Cardinality(DOMAIN B)
    IN {f \in [1..n -> DOMAIN B] : \A i, j \in 1..n : i # j => f[i] # f[j]}

(***************************************************************************)
(* Commands.  Execute returns [cmd, repo], Undo returns the repository.    *)
(***************************************************************************)
TCreateBookingCommand(booking) == [kind |-> "Create", Booking |-> booking, Executed |-> FALSE]
TUpdateBookingCommand(before, after) == [kind |-> "Update", Before |-> before, After |-> after]
TRemoveBookingCommand(id) == [kind |-> "Remove", Id |-> id, Old |-> None]

CreateExecute(cmd, R) ==
    IF ~cmd.Executed
    THEN LET c == RepoCreateBooking(R, cmd.Booking)
         IN [cmd |-> [cmd EXCEPT !.Booking.Id = c.id, !.Executed = TRUE], repo |-> c.repo]
    ELSE [cmd |-> cmd, repo |-> RepoUpdateBooking(R, cmd.Booking)]

CreateUndoKeepsBooking(cmd, R) == R

CreateUndo(cmd, R) ==
    IF cmd.Executed THEN RepoRemoveBooking(R, cmd.Booking.Id) ELSE R

UpdateExecute(cmd, R) == [cmd |-> cmd, repo |-> RepoUpdateBooking(R, cmd.After)]

UpdateUndoWritesAfter(cmd, R) == RepoUpdateBooking(R, cmd.After)

UpdateUndo(cmd, R) == RepoUpdateBooking(R, cmd.Before)

RemoveExecute(cmd, R) ==
    LET old == RepoGetBooking(R, cmd.Id)
    IN [cmd |-> [cmd EXCEPT !.Old = old],
        repo |-> IF old # None THEN RepoRemoveBooking(R, cmd.Id) ELSE R]

RemoveUndo(cmd, R) ==
    IF cmd.Old # None THEN RepoCreateBooking(R, ValueOf(cmd.Old)).repo ELSE R

Execute(cmd, R) ==
    IF cmd.kind = "Create" THEN CreateExecute(cmd, R)
    ELSE IF cmd.kind = "Update" THEN UpdateExecute(cmd, R)
    ELSE RemoveExecute(cmd, R)

UndoCommand(cmd, R) ==
    IF cmd.kind = "Create" THEN CreateUndo(cmd, R)
    ELSE IF cmd.kind = "Update" THEN UpdateUndo(cmd, R)
    ELSE RemoveUndo(cmd, R)

DescribedId(cmd) ==
    IF cmd.kind = "Create" THEN cmd.Booking.Id
    ELSE IF cmd.kind = "Update" THEN cmd.Before.Id
    ELSE cmd.Id

(***************************************************************************)
(* TBookingManager: access rules, history, and the decision of a create.   *)
(***************************************************************************)
CanModify(actor, target) ==
    IF actor.Role = "Admin" THEN TRUE
    ELSE IF actor.Role = "Manager" THEN TRUE
    ELSE IF actor.Role = "User" THEN actor.Id = target.UserIdInternal
    ELSE FALSE

CanCreate(actor) == actor.Role = "Admin" \/ actor.Role = "Manager" \/ actor.Role = "User"

CanCancelAnyUser(actor, target) ==
    actor.Role = "Admin" \/ actor.Role = "Manager" \/ actor.Role = "User"

CanCancel(actor, target) ==
    IF actor.Role = "Admin" THEN TRUE
    ELSE IF actor.Role = "Manager" THEN TRUE
    ELSE IF actor.Role = "User" THEN actor.Id = target.UserIdInternal
    ELSE FALSE

PushUndoDropsNewest(U, cmd) ==
    LET U2 == Append(U, cmd)
    IN [UndoStack |-> IF Len(U2) > UNDO_LIMIT THEN SubSeq(U2, 1, UNDO_LIMIT) ELSE U2,
        RedoStack |-> <<>>]

PushUndoNoEviction(U, cmd) == [UndoStack |-> Append(U, cmd), RedoStack |-> <<>>]

PushUndoKeepsRedo(U, cmd) ==
    LET U2 == Append(U, cmd)
    IN [UndoStack |-> IF Len(U2) > UNDO_LIMIT THEN Tail(U2) ELSE U2,
        RedoStack |-> RedoStack]

(* PushUndo: the two stacks after the push. *)
PushUndo(U, cmd) ==
    LET U2 == Append(U, cmd)
    IN [UndoStack |-> IF Len(U2) > UNDO_LIMIT THEN Tail(U2) ELSE U2,
        RedoStack |-> <<>>]

WindowFrom(req) == req.Start - Hours(24)
WindowTo(req) == IF req.Until # None THEN ValueOf(req.Until) + Hours(1)
                 ELSE req.Start + Hours(24 * 365)

RequestedInst(req) ==
    LET g == GenerateInstances(req, WindowFrom(req), WindowTo(req))
    IN IF g = <<>> THEN <<req>> ELSE g

RelatedWhateverRoom(ex, req) == TRUE

Related(ex, req) ==
    \/ ex.RoomIdInternal = req.RoomIdInternal
    \/ \E i \in 1..Len(ex.Resources) : \E j \in 1..Len(req.Resources) :
           ex.Resources[i] = req.Resources[j]

(* existingInst, built from the bookings ListAll returned in the given     *)
(* order: the instances of order[lo..hi], concatenated in that order.      *)
RECURSIVE ExistingInst(_, _, _, _, _)
ExistingInst(req, B, order, lo, hi) ==
    IF lo > hi THEN <<>>
    ELSE IF lo = hi
    THEN IF Related(B[order[lo]], req)
         THEN GenerateInstances(B[order[lo]], WindowFrom(req), WindowTo(req))
         ELSE <<>>
    ELSE LET mid == (lo + hi) \div 2
         IN ExistingInst(req, B, order, lo, mid) \o ExistingInst(req, B, order, mid + 1, hi)

(* The loop over requestedInst: [ok, Booking] where Booking is what is committed. *)
RECURSIVE Evaluate(_, _, _, _, _, _)
Evaluate(strat, req, requestedInst, existingInst, actor, i) ==
    IF i > Len(requestedInst) THEN [ok |-> TRUE, Booking |-> req]
    ELSE LET res == Resolve(strat, requestedInst[i], existingInst, actor)
         IN IF ~res.ok THEN [ok |-> FALSE, Booking |-> req]
            ELSE IF res.SuggestedStart # None
            THEN [ok |-> TRUE,
                  Booking |-> [req EXCEPT !.Start = ValueOf(res.SuggestedStart),
                                          !.End = ValueOf(res.SuggestedStart) + (req.End - req.Start)]]
            ELSE Evaluate(strat, req, requestedInst, existingInst, actor, i + 1)

Decide(strat, req, actor, B, order) ==
    Evaluate(strat, req, RequestedInst(req), ExistingInst(req, B, order, 1, Len(order)), actor, 1)

(***************************************************************************)
(* Results and the record of the last call.                                *)
(***************************************************************************)
RetSome(v) == [kind |-> "Some", val |-> v]
RetNone == [kind |-> "None", val |-> 0]
RetTrue == [kind |-> "True", val |-> 0]
RetFalse == [kind |-> "False", val |-> 0]
AccessDenied == [kind |-> "AccessDenied", val |-> 0]
RetVoid == [kind |-> "Void", val |-> 0]

Call(op, req, actor, ret) == [op |-> op, req |-> req, actor |-> actor, ret |-> ret]

Repo == RepoOf(Bookings, snapshot, journal)

SetRepo(R) ==
    /\ Bookings' = R.Bookings
    /\ snapshot' = R.snapshot
    /\ journal' = R.journal

(***************************************************************************)
(* Operations of TBookingManager, each as one call.                        *)
(***************************************************************************)
(* Commits the candidate as soon as its first occurrence is accepted. *)
CreateBookingCommitsAccepted(req, actor, order) ==
    /\ IF ~CanCreate(actor)
       THEN /\ last' = Call("Create", req, actor, AccessDenied)
            /\ UNCHANGED <<repoVars, histVars>>
       ELSE LET existingInst == ExistingInst(req, Bookings, order, 1, Len(order))
                d == Evaluate(Strat, req, RequestedInst(req), existingInst, actor, 1)
                first == Evaluate(Strat, req, SubSeq(RequestedInst(req), 1, 1), existingInst, actor, 1)
            IN IF ~first.ok
               THEN /\ last' = Call("Create", req, actor, RetNone)
                    /\ UNCHANGED <<repoVars, histVars>>
               ELSE LET x == Execute(TCreateBookingCommand(IF d.ok THEN d.Booking ELSE first.Booking), Repo)
                        h == PushUndo(UndoStack, x.cmd)
                    IN /\ SetRepo(x.repo)
                       /\ UndoStack' = h.UndoStack
                       /\ RedoStack' = h.RedoStack
                       /\ last' = Call("Create", req, actor,
                                       IF d.ok THEN RetSome(x.cmd.Booking.Id) ELSE RetNone)
    /\ UNCHANGED <<Strat, threadVars>>

CreateBooking(req, actor, order) ==
    /\ IF ~CanCreate(actor)
       THEN /\ last' = Call("Create", req, actor, AccessDenied)
            /\ UNCHANGED <<repoVars, histVars>>
       ELSE LET d == Decide(Strat, req, actor, Bookings, order)
            IN IF ~d.ok
               THEN /\ last' = Call("Create", req, actor, RetNone)
                    /\ UNCHANGED <<repoVars, histVars>>
               ELSE LET x == Execute(TCreateBookingCommand(d.Booking), Repo)
                        h == PushUndo(UndoStack, x.cmd)
                    IN /\ SetRepo(x.repo)
                       /\ UndoStack' = h.UndoStack
                       /\ RedoStack' = h.RedoStack
                       /\ last' = Call("Create", req, actor, RetSome(x.cmd.Booking.Id))
    /\ UNCHANGED <<Strat, threadVars>>

(* Writes the four fields whether or not the request carries them. *)
UpdatedWritesAbsentFields(old, req) ==
    [old EXCEPT !.Title = IF req.Title # None THEN ValueOf(req.Title) ELSE "",
                !.Description = IF req.Description # None THEN ValueOf(req.Description) ELSE "",
                !.Start = IF req.Start # None THEN ValueOf(req.Start) ELSE 0,
                !.End = IF req.End # None THEN ValueOf(req.End) ELSE 0]

Updated(old, req) ==
    [old EXCEPT !.Title = IF req.Title # None THEN ValueOf(req.Title) ELSE @,
                !.Description = IF req.Description # None THEN ValueOf(req.Description) ELSE @,
                !.Start = IF req.Start # None THEN ValueOf(req.Start) ELSE @,
                !.End = IF req.End # None THEN ValueOf(req.End) ELSE @]

ModifyBooking(req) ==
    /\ LET old == RepoGetBooking(Repo, req.Id)
       IN IF old = None
          THEN /\ last' = Call("Modify", req, req.Actor, RetFalse)
               /\ UNCHANGED <<repoVars, histVars>>
          ELSE IF ~CanModify(req.Actor, ValueOf(old))
          THEN /\ last' = Call("Modify", req, req.Actor, AccessDenied)
               /\ UNCHANGED <<repoVars, histVars>>
          ELSE LET x == Execute(TUpdateBookingCommand(ValueOf(old), Updated(ValueOf(old), req)), Repo)
                   h == PushUndo(UndoStack, x.cmd)
               IN /\ SetRepo(x.repo)
                  /\ UndoStack' = h.UndoStack
                  /\ RedoStack' = h.RedoStack
                  /\ last' = Call("Modify", req, req.Actor, RetTrue)
    /\ UNCHANGED <<Strat, threadVars>>

(* Checks the access of the actor before looking the identifier up. *)
CancelBookingChecksAccessFirst(id, actor) ==
    /\ LET ob == RepoGetBooking(Repo, id)
       IN IF actor.Role = "User" /\ (ob = None \/ ~CanCancel(actor, ValueOf(ob)))
          THEN /\ last' = Call("Cancel", [Id |-> id], actor, AccessDenied)
               /\ UNCHANGED <<repoVars, histVars>>
          ELSE IF ob = None
          THEN /\ last' = Call("Cancel", [Id |-> id], actor, RetFalse)
               /\ UNCHANGED <<repoVars, histVars>>
          ELSE LET x == Execute(TRemoveBookingCommand(id), Repo)
                   h == PushUndo(UndoStack, x.cmd)
               IN /\ SetRepo(x.repo)
                  /\ UndoStack' = h.UndoStack
                  /\ RedoStack' = h.RedoStack
                  /\ last' = Call("Cancel", [Id |-> id], actor, RetTrue)
    /\ UNCHANGED <<Strat, threadVars>>

CancelBooking(id, actor) ==
    /\ LET ob == RepoGetBooking(Repo, id)
       IN IF ob = None
          THEN /\ last' = Call("Cancel", [Id |-> id], actor, RetFalse)
               /\ UNCHANGED <<repoVars, histVars>>
          ELSE IF ~CanCancel(actor, ValueOf(ob))
          THEN /\ last' = Call("Cancel", [Id |-> id], actor, AccessDenied)
               /\ UNCHANGED <<repoVars, histVars>>
          ELSE LET x == Execute(TRemoveBookingCommand(id), Repo)
                   h == PushUndo(UndoStack, x.cmd)
               IN /\ SetRepo(x.repo)
                  /\ UndoStack' = h.UndoStack
                  /\ RedoStack' = h.RedoStack
                  /\ last' = Call("Cancel", [Id |-> id], actor, RetTrue)
    /\ UNCHANGED <<Strat, threadVars>>

(* The live set and the stacks a call of Undo finds, kept with the record   *)
(* of the call.                                                             *)
HistoryState == [Bookings |-> Bookings, UndoStack |-> UndoStack, RedoStack |-> RedoStack]

Undo ==
    /\ IF UndoStack = <<>>
       THEN /\ last' = Call("Undo", [Id |-> 0, Before |-> HistoryState], NoUser, RetNone)
            /\ UNCHANGED <<repoVars, histVars>>
       ELSE LET cmd == UndoStack[Len(UndoStack)]
            IN /\ SetRepo(UndoCommand(cmd, Repo))
               /\ UndoStack' = SubSeq(UndoStack, 1, Len(UndoStack) - 1)
               /\ RedoStack' = Append(RedoStack, cmd)
               /\ last' = Call("Undo", [Id |-> DescribedId(cmd), Before |-> HistoryState],
                               NoUser, RetSome(DescribedId(cmd)))
    /\ UNCHANGED <<Strat, threadVars>>

(* Leaves the command it executes on the redo stack. *)
RedoKeepsCommand ==
    /\ IF RedoStack = <<>>
       THEN /\ last' = Call("Redo", [Id |-> 0], NoUser, RetNone)
            /\ UNCHANGED <<repoVars, histVars>>
       ELSE LET cmd == RedoStack[Len(RedoStack)]
                x == Execute(cmd, Repo)
            IN /\ SetRepo(x.repo)
               /\ RedoStack' = RedoStack
               /\ UndoStack' = Append(UndoStack, x.cmd)
               /\ last' = Call("Redo", [Id |-> DescribedId(cmd)], NoUser, RetSome(DescribedId(cmd)))
    /\ UNCHANGED <<Strat, threadVars>>

Redo ==
    /\ IF RedoStack = <<>>
       THEN /\ last' = Call("Redo", [Id |-> 0], NoUser, RetNone)
            /\ UNCHANGED <<repoVars, histVars>>
       ELSE LET cmd == RedoStack[Len(RedoStack)]
                x == Execute(cmd, Repo)
            IN /\ SetRepo(x.repo)
               /\ RedoStack' = SubSeq(RedoStack, 1, Len(RedoStack) - 1)
               /\ UndoStack' = Append(UndoStack, x.cmd)
               /\ last' = Call("Redo", [Id |-> DescribedId(cmd)], NoUser, RetSome(DescribedId(cmd)))
    /\ UNCHANGED <<Strat, threadVars>>

SetStrategyKeepsPolicy(s) ==
    /\ Strat' = Strat
    /\ last' = Call("SetStrategy", [Id |-> 0, Strategy |-> s], NoUser, RetVoid)
    /\ UNCHANGED <<repoVars, histVars, threadVars>>

SetStrategy(s) ==
    /\ Strat' = s
    /\ last' = Call("SetStrategy", [Id |-> 0, Strategy |-> s], NoUser, RetVoid)
    /\ UNCHANGED <<repoVars, histVars, threadVars>>

(***************************************************************************)
(* Construction: an empty repository over an empty MemoryStorage, empty    *)
(* history, no thread inside a call.                                       *)
(***************************************************************************)
NThreads == 2
Threads == 1..NThreads

NoBooking == TBooking(0, 0, 0, 0, "None", None, "", "", <<>>, <<>>, 0)
IdleLocal == [op |-> "Init", req |-> NoBooking, actor |-> NoUser, existingInst |-> <<>>,
              decision |-> [ok |-> FALSE, Booking |-> NoBooking],
              cmd |-> TCreateBookingCommand(NoBooking), ret |-> RetVoid]

Constructed(strategy) ==
    /\ Bookings = <<>>
    /\ snapshot = {}
    /\ journal = <<>>
    /\ UndoStack = <<>>
    /\ RedoStack = <<>>
    /\ Strat = strategy
    /\ last = Call("Init", [Id |-> 0], NoUser, RetVoid)
    /\ Mutex_ = 0
    /\ HistoryMutex_ = 0
    /\ RepoMutex_ = 0
    /\ StorageMutex_ = 0
    /\ pc = [t \in Threads |-> "idle"]
    /\ local = [t \in Threads |-> IdleLocal]

LiveIds == DOMAIN Bookings

(***************************************************************************)
(* SpecReject: creates of one-off and recurring requests under the Reject  *)
(* strategy, with cancel, undo and redo.                                   *)
(***************************************************************************)
MaxJournalReject == 2

NextReject ==
    /\ Len(journal) < MaxJournalReject
    /\ \/ \E req \in {b \in {[MakeBooking(room, off, 60) EXCEPT !.RecType = rt, !.Until = u] :
                                room \in {1, 2}, off \in {0, 30, 60},
                                rt \in {"None", "Daily"}, u \in {None, Some(Now - Hours(2)), Some(Now + Hours(25))}} :
                         /\ b.RecType = "None" \/ b.Until # None
                         /\ b.RoomIdInternal = 1 \/ (b.RecType = "None" /\ b.Until = None)} : \E order \in ListAllOrders(Bookings) :
              CreateBooking(req, NormalUser, order)
       \/ \E id \in LiveIds : CancelBooking(id, NormalUser)
       \/ Undo
       \/ Redo

SpecReject == Constructed(RejectStrategy) /\ [][NextReject]_vars

(***************************************************************************)
(* Spec: the history of creates, modifications and cancellations of one    *)
(* user under the Reject strategy, with undo and redo.                     *)
(***************************************************************************)
MaxJournal == 5

HistoryRequests == {MakeBooking(1, off, 60) : off \in {0, 30, 60}}

TChangeRequest(id, title, desc, start, end, actor) ==
    [Id |-> id, Title |-> title, Description |-> desc, Start |-> start, End |-> end,
     Actor |-> actor]

(* The live identifiers and one that is not live. *)
CallIds == LiveIds \cup {MaxId(Bookings) + 1}

Actors == {AdminUser, ManagerUser, NormalUser, OtherUser}

HistoryChanges ==
    {TChangeRequest(id, Some("retitled"), None, None, None, actor) :
        id \in CallIds, actor \in Actors}

Init == Constructed(RejectStrategy)

Next ==
    /\ Len(journal) < MaxJournal
    /\ \/ \E req \in HistoryRequests : \E order \in ListAllOrders(Bookings) :
              CreateBooking(req, NormalUser, order)
       \/ \E req \in HistoryChanges : ModifyBooking(req)
       \/ \E id \in CallIds : \E actor \in Actors : CancelBooking(id, actor)
       \/ Undo
       \/ Redo

Spec == Init /\ [][Next]_vars

(***************************************************************************)
(* SpecPreempt: creates by users of different priority under the Preempt   *)
(* strategy.                                                               *)
(***************************************************************************)
MaxJournalPreempt == 3

NextPreempt ==
    /\ Len(journal) < MaxJournalPreempt
    /\ \/ \E req \in {[MakeBooking(1, off, 60) EXCEPT !.OwnerPriority = p] :
                         off \in {0, 30, 90}, p \in {0, 50}} : \E actor \in {AdminUser, ManagerUser, NormalUser} :
              \E order \in ListAllOrders(Bookings) : CreateBooking(req, actor, order)
       \/ \E id \in LiveIds : CancelBooking(id, AdminUser)
       \/ Undo
       \/ Redo

SpecPreempt == Constructed(PreemptStrategy) /\ [][NextPreempt]_vars

(***************************************************************************)
(* SpecLimit: more sequential creates than the undo stack holds, then Undo *)
(* until it reports nothing (History.HistoryLimitWorks).                   *)
(***************************************************************************)
MaxCreates == 301

(* ListAll of a repository whose identifiers are 1..n, in ascending order. *)
IdentityOrder(B) == [i \in 1..Cardinality(DOMAIN B) |-> i]

NextLimit ==
    \/ /\ last.op \in {"Init", "Create"}
       /\ Len(journal) < MaxCreates
       /\ IdentityOrder(Bookings) \in ListAllOrders(Bookings)
       /\ CreateBooking(MakeBooking(1, Len(journal) * 2, 1), NormalUser, IdentityOrder(Bookings))
    \/ /\ Len(journal) >= MaxCreates
       /\ last.ret # RetNone
       /\ Undo

SpecLimit == Constructed(RejectStrategy) /\ [][NextLimit]_vars

(***************************************************************************)
(* SpecConcurrent: threads calling CreateBooking at the same time under    *)
(* the Reject strategy (Multithreading.ParallelCreatesNoCrashes).  Each    *)
(* access to the repository or to the history is one step; the steps of    *)
(* one call are those of the sequential CreateBooking above.               *)
(***************************************************************************)
(* std::lock_guard lk(Mutex_) can be constructed. *)
LockFree(m) == m = 0

SetLocal(t, field, value) == local' = [local EXCEPT ![t][field] = value]

(* The call returns: the lock_guard releases Mutex_. *)
Returned(t, ret) ==
    /\ local' = [local EXCEPT ![t].ret = ret]
    /\ last' = Call(local[t].op, local[t].req, local[t].actor, ret)
    /\ Mutex_' = 0
    /\ pc' = [pc EXCEPT ![t] = "done"]

T_CreateBooking(t, req, actor) ==
    /\ pc[t] = "idle"
    /\ local' = [local EXCEPT ![t].op = "Create", ![t].req = req, ![t].actor = actor]
    /\ IF CanCreate(actor)
       THEN pc' = [pc EXCEPT ![t] = "lock"] /\ UNCHANGED last
       ELSE /\ pc' = [pc EXCEPT ![t] = "done"]
            /\ last' = Call("Create", req, actor, AccessDenied)
    /\ UNCHANGED <<repoVars, histVars, Strat, Mutex_>>
    /\ UNCHANGED lockVars

T_ModifyBooking(t, req) ==
    /\ pc[t] = "idle"
    /\ local' = [local EXCEPT ![t].op = "Modify", ![t].req = req, ![t].actor = req.Actor]
    /\ pc' = [pc EXCEPT ![t] = "lock"]
    /\ UNCHANGED <<repoVars, histVars, Strat, Mutex_, last>>
    /\ UNCHANGED lockVars

T_CancelBooking(t, id, actor) ==
    /\ pc[t] = "idle"
    /\ local' = [local EXCEPT ![t].op = "Cancel", ![t].req = [Id |-> id], ![t].actor = actor]
    /\ pc' = [pc EXCEPT ![t] = "lock"]
    /\ UNCHANGED <<repoVars, histVars, Strat, Mutex_, last>>
    /\ UNCHANGED lockVars

T_Lock(t) ==
    /\ pc[t] = "lock"
    /\ LockFree(Mutex_)
    /\ Mutex_' = t
    /\ pc' = [pc EXCEPT ![t] = IF local[t].op = "Create" THEN "list" ELSE "get"]
    /\ UNCHANGED <<repoVars, histVars, Strat, last, local>>
    /\ UNCHANGED lockVars

T_ListAll(t) ==
    /\ pc[t] = "list"
    /\ \E order \in ListAllOrders(Bookings) :
           SetLocal(t, "existingInst", ExistingInst(local[t].req, Bookings, order, 1, Len(order)))
    /\ pc' = [pc EXCEPT ![t] = "resolve"]
    /\ UNCHANGED <<repoVars, histVars, Strat, last, Mutex_>>
    /\ UNCHANGED lockVars

T_Resolve(t) ==
    /\ pc[t] = "resolve"
    /\ LET d == Evaluate(Strat, local[t].req, RequestedInst(local[t].req),
                         local[t].existingInst, local[t].actor, 1)
       IN IF ~d.ok
          THEN Returned(t, RetNone)
          ELSE /\ local' = [local EXCEPT ![t].decision = d,
                                         ![t].cmd = TCreateBookingCommand(d.Booking)]
               /\ pc' = [pc EXCEPT ![t] = "execute"]
               /\ UNCHANGED <<last, Mutex_>>
    /\ UNCHANGED <<repoVars, histVars, Strat>>
    /\ UNCHANGED lockVars

T_GetBooking(t) ==
    /\ pc[t] = "get"
    /\ LET old == RepoGetBooking(Repo, local[t].req.Id)
       IN IF old = None
          THEN Returned(t, RetFalse)
          ELSE IF local[t].op = "Modify"
          THEN IF ~CanModify(local[t].actor, ValueOf(old))
               THEN Returned(t, AccessDenied)
               ELSE /\ SetLocal(t, "cmd", TUpdateBookingCommand(ValueOf(old),
                                              Updated(ValueOf(old), local[t].req)))
                    /\ pc' = [pc EXCEPT ![t] = "execute"]
                    /\ UNCHANGED <<last, Mutex_>>
          ELSE IF ~CanCancel(local[t].actor, ValueOf(old))
               THEN Returned(t, AccessDenied)
               ELSE /\ SetLocal(t, "cmd", TRemoveBookingCommand(local[t].req.Id))
                    /\ pc' = [pc EXCEPT ![t] = "execute"]
                    /\ UNCHANGED <<last, Mutex_>>
    /\ UNCHANGED <<repoVars, histVars, Strat>>
    /\ UNCHANGED lockVars

T_Execute(t) ==
    /\ pc[t] = "execute"
    /\ LET x == Execute(local[t].cmd, Repo)
       IN /\ SetRepo(x.repo)
          /\ SetLocal(t, "cmd", x.cmd)
    /\ pc' = [pc EXCEPT ![t] = "push"]
    /\ UNCHANGED <<histVars, Strat, last, Mutex_>>
    /\ UNCHANGED lockVars

T_PushUndo(t) ==
    /\ pc[t] = "push"
    /\ LET h == PushUndo(UndoStack, local[t].cmd)
       IN /\ UndoStack' = h.UndoStack
          /\ RedoStack' = h.RedoStack
    /\ pc' = [pc EXCEPT ![t] = "return"]
    /\ UNCHANGED <<repoVars, Strat, last, Mutex_, local>>
    /\ UNCHANGED lockVars

T_Return(t) ==
    /\ pc[t] = "return"
    /\ Returned(t, IF local[t].op = "Create" THEN RetSome(local[t].cmd.Booking.Id) ELSE RetTrue)
    /\ UNCHANGED <<repoVars, histVars, Strat>>
    /\ UNCHANGED lockVars

NextConcurrent ==
    \E t \in Threads :
        \/ \E req \in {[MakeBooking(1, off, 60) EXCEPT !.Until = u] :
                          off \in {0, 30}, u \in {None, Some(Now - Hours(2))}} : T_CreateBooking(t, req, NormalUser)
        \/ T_ModifyBooking(t, TChangeRequest(1, Some("retitled"), None, None, None, NormalUser))
        \/ T_CancelBooking(t, 1, NormalUser)
        \/ T_Lock(t)
        \/ T_ListAll(t)
        \/ T_Resolve(t)
        \/ T_GetBooking(t)
        \/ T_Execute(t)
        \/ T_PushUndo(t)
        \/ T_Return(t)

SpecConcurrent == Constructed(RejectStrategy) /\ [][NextConcurrent]_vars

(***************************************************************************)
(* SpecQuorum: creates of candidates with one or two attendees under the   *)
(* Quorum strategy (Strategy.QuorumAllowsWithEnoughAttendees).             *)
(***************************************************************************)
MaxJournalQuorum == 3

QuorumThreshold == 2

NextQuorum ==
    /\ Len(journal) < MaxJournalQuorum
    /\ \/ \E req \in {[MakeBooking(1, off, 60) EXCEPT !.Attendees = att, !.Until = u] :
                         off \in {0, 30}, att \in {<<1>>, <<1, 2>>}, u \in {None, Some(Now - Hours(2))}} : \E order \in ListAllOrders(Bookings) :
              CreateBooking(req, NormalUser, order)
       \/ \E id \in LiveIds : CancelBooking(id, NormalUser)

SpecQuorum == Constructed(QuorumStrategy(QuorumThreshold)) /\ [][NextQuorum]_vars

(***************************************************************************)
(* SpecAutoBump: creates of one-off candidates under the AutoBump strategy *)
(* (Strategy.AutoBumpShiftsToFreeSlot), with cancel.                       *)
(***************************************************************************)
MaxJournalAutoBump == 3

NextAutoBump ==
    /\ Len(journal) < MaxJournalAutoBump
    /\ \/ \E req \in {[MakeBooking(1, off, dur) EXCEPT !.Until = u] :
                         off \in {0, 30}, dur \in {30, 60}, u \in {None, Some(Now - Hours(2))}} : \E order \in ListAllOrders(Bookings) :
              CreateBooking(req, NormalUser, order)
       \/ \E id \in LiveIds : CancelBooking(id, NormalUser)

SpecAutoBump == Constructed(AutoBumpStrategy) /\ [][NextAutoBump]_vars

(***************************************************************************)
(* SpecResources: creates of candidates of two rooms that book shared      *)
(* resources, under the Reject strategy (Resources.SameResourcesConflict,  *)
(* Conflicts.DifferentRoomsNoConflict).  A TResource is its Id.            *)
(***************************************************************************)
MaxJournalResources == 2

NextResources ==
    /\ Len(journal) < MaxJournalResources
    /\ \/ \E req \in {[MakeBooking(room, off, 60) EXCEPT !.Resources = res, !.Until = u] :
                         room \in {1, 2}, off \in {0, 30},
                         res \in {<<>>, <<"projector-A">>, <<"projector-B">>, <<"projector-A", "projector-B">>},
                         u \in {None, Some(Now - Hours(2))}} : \E order \in ListAllOrders(Bookings) :
              CreateBooking(req, NormalUser, order)
       \/ \E id \in LiveIds : CancelBooking(id, NormalUser)

SpecResources == Constructed(RejectStrategy) /\ [][NextResources]_vars

(***************************************************************************)
(* SpecRecurrence: creates of Daily recurring and one-off candidates of    *)
(* one room under the Reject strategy (Conflicts.RecurrenceInstanceConflict*)
(* and Conflicts.RecurrenceNoConflictDifferentTimes).                      *)
(***************************************************************************)
MaxJournalRecurrence == 3

NextRecurrence ==
    /\ Len(journal) < MaxJournalRecurrence
    /\ \/ \E req \in {[MakeBooking(1, off, 60) EXCEPT !.RecType = "Daily",
                                                      !.Until = Some(Now + Minutes(off) + Hours(h))] :
                         off \in {0, 60, 24 * 60}, h \in {24, 48}}
                      \cup {[MakeBooking(1, off, 60) EXCEPT !.Until = u] :
                              off \in {0, 60, 24 * 60}, u \in {None, Some(Now - Hours(2))}} : \E order \in ListAllOrders(Bookings) :
              CreateBooking(req, NormalUser, order)
       \/ \E id \in LiveIds : CancelBooking(id, NormalUser)

SpecRecurrence == Constructed(RejectStrategy) /\ [][NextRecurrence]_vars

(***************************************************************************)
(* Loading a snapshot.  FromJsonInternal and FromJSON fill a default       *)
(* TBooking from the fields of the document; instants come back as whole   *)
(* seconds and OwnerPriority, which the document does not carry, keeps its *)
(* default.                                                                *)
(***************************************************************************)
FromSeconds(s) == s * TicksPerSecond

DefaultBooking == TBooking(0, 0, 0, 0, "None", None, "", "", <<>>, <<>>, 0)

FromJsonInternal(j, b) ==
    [b EXCEPT !.Id = j.id, !.RoomIdInternal = j.room_id, !.UserIdInternal = j.user_id,
              !.Start = FromSeconds(j.start), !.End = FromSeconds(j.end),
              !.Title = j.title, !.Description = j.description]

FromJSON(j, b) ==
    [FromJsonInternal(j, b) EXCEPT
        !.RecType = j.recurrence.type,
        !.Until = IF j.recurrence.until = None THEN b.Until
                  ELSE Some(FromSeconds(ValueOf(j.recurrence.until))),
        !.Attendees = j.attendees,
        !.Resources = j.resources]

(* TRepository::Reload: the map rebuilt from the "bookings" of the snapshot. *)
Reload(snap) ==
    [id \in {j.id : j \in snap} |->
        FromJSON(CHOOSE j \in snap : j.id = id, DefaultBooking)]

(* A fresh repository, under a fresh manager, constructed over the storage *)
(* the previous one wrote.                                                 *)
ReloadRepository ==
    /\ Bookings' = Reload(snapshot)
    /\ UndoStack' = <<>>
    /\ RedoStack' = <<>>
    /\ last' = Call("Reload", [Id |-> 0], NoUser, RetVoid)
    /\ UNCHANGED <<snapshot, journal, Strat, threadVars>>

(***************************************************************************)
(* SpecReload: creates and cancels of bookings whose instants may fall     *)
(* between two seconds and whose owner priority may be set, with restarts  *)
(* over the same storage.                                                  *)
(***************************************************************************)
MaxJournalReload == 3

NextReload ==
    \/ /\ Len(journal) < MaxJournalReload
       /\ \/ \E req \in {[MakeBooking(1, off, 60) EXCEPT !.Start = @ + tk, !.End = @ + tk, !.OwnerPriority = p] :
                            off \in {0, 60}, tk \in {0, 1}, p \in {0, 50}} : \E order \in ListAllOrders(Bookings) :
                 CreateBooking(req, NormalUser, order)
          \/ \E id \in LiveIds : CancelBooking(id, NormalUser)
    \/ /\ last.op # "Reload"
       /\ ReloadRepository

SpecReload == Constructed(RejectStrategy) /\ [][NextReload]_vars

(***************************************************************************)
(* SpecStrategy: the policy of a live manager is swapped between creates   *)
(* and cancels.                                                            *)
(***************************************************************************)
MaxJournalStrategy == 3

NextStrategy ==
    \/ /\ Len(journal) < MaxJournalStrategy
       /\ \/ \E req \in {MakeBooking(1, off, 60) : off \in {0, 30}} : \E actor \in {AdminUser, NormalUser} :
                 \E order \in ListAllOrders(Bookings) : CreateBooking(req, actor, order)
          \/ \E id \in LiveIds : CancelBooking(id, AdminUser)
          \/ Undo
          \/ Redo
    \/ /\ last.op # "SetStrategy"
       /\ \E s \in {RejectStrategy, AutoBumpStrategy, PreemptStrategy} : SetStrategy(s)

SpecStrategy == Constructed(RejectStrategy) /\ [][NextStrategy]_vars

(***************************************************************************)
(* ImportFromCalendar.  M is the manager with its repository:              *)
(* [Bookings, snapshot, journal, UndoStack, RedoStack].                    *)
(***************************************************************************)
TCalendarEvent(room, user, start, end, title, desc) ==
    [RoomIdInternal |-> room, UserIdInternal |-> user, Start |-> start, End |-> end,
     Title |-> title, Description |-> desc]

(* The TBooking the import builds from an event. *)
EventBooking(ev) ==
    [DefaultBooking EXCEPT !.RoomIdInternal = ev.RoomIdInternal,
                           !.UserIdInternal = ev.UserIdInternal,
                           !.Start = ev.Start, !.End = ev.End,
                           !.Title = ev.Title, !.Description = ev.Description]

ManagerOf(B, s, j, U, R) ==
    [Bookings |-> B, snapshot |-> s, journal |-> j, UndoStack |-> U, RedoStack |-> R]

(* TBookingManager::CreateBooking as a function of the manager it is       *)
(* called on, for an actor that may create.                                *)
CreateBookingCall(M, strat, req, actor, order) ==
    LET d == Decide(strat, req, actor, M.Bookings, order)
    IN IF ~d.ok
       THEN [M |-> M, ret |-> RetNone]
       ELSE LET x == Execute(TCreateBookingCommand(d.Booking),
                             RepoOf(M.Bookings, M.snapshot, M.journal))
                h == PushUndo(M.UndoStack, x.cmd)
            IN [M |-> ManagerOf(x.repo.Bookings, x.repo.snapshot, x.repo.journal,
                                h.UndoStack, h.RedoStack),
                ret |-> RetSome(x.cmd.Booking.Id)]

(* Gives up at the first event whose create is rejected. *)
RECURSIVE ImportLoopStopsAtRejected(_, _, _, _, _, _)
ImportLoopStopsAtRejected(events, i, M, strat, actor, imported) ==
    IF i > Len(events) THEN {[M |-> M, imported |-> imported]}
    ELSE UNION {LET c == CreateBookingCall(M, strat, EventBooking(events[i]), actor, order)
                IN IF c.ret.kind = "Some"
                   THEN ImportLoopStopsAtRejected(events, i + 1, c.M, strat, actor,
                                                  Append(imported, c.ret.val))
                   ELSE {[M |-> M, imported |-> imported]} :
                order \in ListAllOrders(M.Bookings)}

(* The loop over the fetched events: the outcomes it can have, one for     *)
(* each way ListAll may enumerate the bookings at each create.             *)
RECURSIVE ImportLoop(_, _, _, _, _, _)
ImportLoop(events, i, M, strat, actor, imported) ==
    IF i > Len(events) THEN {[M |-> M, imported |-> imported]}
    ELSE UNION {LET c == CreateBookingCall(M, strat, EventBooking(events[i]), actor, order)
                IN ImportLoop(events, i + 1, c.M, strat, actor,
                              IF c.ret.kind = "Some" THEN Append(imported, c.ret.val)
                              ELSE imported) :
                order \in ListAllOrders(M.Bookings)}

RetList(ids) == [kind |-> "List", val |-> ids]

(* events is what adapter.Fetch returns for the window of the call. *)
ImportFromCalendar(events, actor) ==
    /\ IF actor.Role # "Admin" /\ actor.Role # "Manager"
       THEN /\ last' = Call("Import", [Id |-> 0, Fetched |-> FALSE, Events |-> <<>>],
                            actor, AccessDenied)
            /\ UNCHANGED <<repoVars, histVars>>
       ELSE \E out \in ImportLoop(events, 1,
                                  ManagerOf(Bookings, snapshot, journal, UndoStack, RedoStack),
                                  Strat, actor, <<>>) :
               /\ Bookings' = out.M.Bookings
               /\ snapshot' = out.M.snapshot
               /\ journal' = out.M.journal
               /\ UndoStack' = out.M.UndoStack
               /\ RedoStack' = out.M.RedoStack
               /\ last' = Call("Import", [Id |-> 0, Fetched |-> TRUE, Events |-> events],
                               actor, RetList(out.imported))
    /\ UNCHANGED <<Strat, threadVars>>

(***************************************************************************)
(* SpecImport: imports of up to MaxEvents events between creates and       *)
(* cancels, under the Reject strategy.                                     *)
(***************************************************************************)
MaxJournalImport == 3
MaxEvents == 3

NextImport ==
    /\ Len(journal) < MaxJournalImport
    /\ \/ \E req \in {MakeBooking(1, 0, 60), MakeBooking(1, 60, 60)} : \E order \in ListAllOrders(Bookings) :
              CreateBooking(req, NormalUser, order)
       \/ \E id \in LiveIds : CancelBooking(id, AdminUser)
       \/ \E events \in UNION {[1..n -> {TCalendarEvent(1, 7, Now + Minutes(off), Now + Minutes(off) + Minutes(60),
                                                        "imported", "from calendar") : off \in {0, 90}}] : n \in 0..MaxEvents} : \E actor \in {AdminUser, ManagerUser, NormalUser} :
              ImportFromCalendar(events, actor)

SpecImport == Constructed(RejectStrategy) /\ [][NextImport]_vars

(***************************************************************************)
(* SpecLocks: the calls of TBookingManager at the grain of their mutexes.  *)
(* A thread inside a call carries the steps it has still to take.  A step  *)
(* constructs a lock guard ("acq") and does the work that follows under    *)
(* it, or destroys one ("rel") together with the work next to it that      *)
(* touches only what the thread holds; the call returns with its last      *)
(* step.                                                                   *)
(***************************************************************************)
Acq(m, w) == <<"acq", m, w>>
Rel(m, w) == <<"rel", m, w>>

(* A reading method of TRepository (GetBooking, ListAll) under its mutex;  *)
(* then is what the caller does with the value once the method returned.   *)
RepoRead(w, then) == <<Acq("Repo", w), Rel("Repo", then)>>

(* A writing method of TRepository: the map is changed under the mutex of  *)
(* the repository, then SaveState and AppendJournal each take the mutex of *)
(* the storage.                                                            *)
RepoWrite(w) ==
    <<Acq("Repo", w), Acq("Storage", "SaveState"), Rel("Storage", "None"),
      Acq("Storage", "AppendJournal"), Rel("Storage", "None"), Rel("Repo", "None")>>

(* cmd->Execute(). *)
ExecuteSteps(cmd) ==
    IF cmd.kind = "Remove" THEN RepoRead("RemoveGet", "None") ELSE RepoWrite("Execute")

(* cmd->Undo(). *)
UndoSteps(cmd) ==
    IF cmd.kind = "Create" THEN (IF cmd.Executed THEN RepoWrite("Undo") ELSE <<>>)
    ELSE IF cmd.kind = "Update" THEN RepoWrite("Undo")
    ELSE IF cmd.Old # None THEN RepoWrite("Undo") ELSE <<>>

(* Execute, PushUndo and the return of CreateBooking, ModifyBooking and    *)
(* CancelBooking, which hold Mutex_ throughout.                            *)
CommitSteps(cmd) ==
    ExecuteSteps(cmd) \o
    <<Acq("History", "PushUndo"), Rel("History", "None"), Rel("Mutex", "None")>>

GiveUpSteps == <<Rel("Mutex", "None")>>

CreateBookingSteps == <<Acq("Mutex", "None")>> \o RepoRead("ListAll", "Resolve")
ModifyBookingSteps == <<Acq("Mutex", "None")>> \o RepoRead("GetBooking", "CheckAccess")
CancelBookingSteps == <<Acq("Mutex", "None")>> \o RepoRead("GetBooking", "CheckAccess")
UndoCallStepsTakingMutex ==
    <<Acq("History", "None"), Acq("Mutex", "None"), Rel("Mutex", "PopUndo")>>
UndoCallSteps == <<Acq("History", "PopUndo")>>
RedoCallSteps == <<Acq("History", "PopRedo")>>

Holder(m) ==
    IF m = "Mutex" THEN Mutex_
    ELSE IF m = "History" THEN HistoryMutex_
    ELSE IF m = "Repo" THEN RepoMutex_
    ELSE StorageMutex_

SetHolder(m, h) ==
    /\ Mutex_' = IF m = "Mutex" THEN h ELSE Mutex_
    /\ HistoryMutex_' = IF m = "History" THEN h ELSE HistoryMutex_
    /\ RepoMutex_' = IF m = "Repo" THEN h ELSE RepoMutex_
    /\ StorageMutex_' = IF m = "Storage" THEN h ELSE StorageMutex_

(* A call starts: the thread takes up the steps of the method. *)
L_Call(t, op, req, actor, steps) ==
    /\ pc[t] = "idle"
    /\ pc' = [pc EXCEPT ![t] = "call"]
    /\ local' = [local EXCEPT ![t] = [[op |-> "Init", req |-> [Id |-> 0], actor |-> NoUser, existingInst |-> <<>>,
                                       got |-> None, cmd |-> TRemoveBookingCommand(0), je |-> None,
                                       ret |-> RetVoid, todo |-> <<>>] EXCEPT !.op = op, !.req = req,
                                                      !.actor = actor, !.todo = steps]]
    /\ UNCHANGED <<repoVars, histVars, Strat, last, Mutex_, lockVars>>

(* The repository a writing method leaves once its three steps are done. *)
Written(w, l) ==
    IF w = "Execute" THEN Execute(l.cmd, Repo)
    ELSE IF w = "Remove" THEN [cmd |-> l.cmd, repo |-> RepoRemoveBooking(Repo, l.cmd.Id)]
    ELSE [cmd |-> l.cmd, repo |-> UndoCommand(l.cmd, Repo)]

(* The effect of a piece of work w of thread state l: the manager and the  *)
(* thread state after it, rest being the steps that followed w.            *)
Work(w, l, rest, order) ==
    LET M == ManagerOf(Bookings, snapshot, journal, UndoStack, RedoStack)
        Out(m, l2) == [M |-> m, l |-> l2]
    IN IF w = "ListAll"
       THEN Out(M, [l EXCEPT !.existingInst =
                        IF l.op = "Create"
                        THEN ExistingInst(l.req, Bookings, order, 1, Len(order))
                        ELSE [i \in 1..Len(order) |-> Bookings[order[i]]],
                      !.todo = rest])
       ELSE IF w = "Resolve"
       THEN LET d == Evaluate(Strat, l.req, RequestedInst(l.req), l.existingInst, l.actor, 1)
            IN IF ~d.ok
               THEN Out(M, [l EXCEPT !.ret = RetNone, !.todo = GiveUpSteps])
               ELSE Out(M, [l EXCEPT !.cmd = TCreateBookingCommand(d.Booking),
                                     !.todo = CommitSteps(TCreateBookingCommand(d.Booking))])
       ELSE IF w = "GetBooking"
       THEN Out(M, [l EXCEPT !.got = RepoGetBooking(Repo, l.req.Id), !.todo = rest])
       ELSE IF w = "CheckAccess"
       THEN IF l.got = None
            THEN Out(M, [l EXCEPT !.ret = RetFalse, !.todo = GiveUpSteps])
            ELSE IF l.op = "Modify"
            THEN IF ~CanModify(l.actor, ValueOf(l.got))
                 THEN Out(M, [l EXCEPT !.ret = AccessDenied, !.todo = GiveUpSteps])
                 ELSE LET c == TUpdateBookingCommand(ValueOf(l.got),
                                                     Updated(ValueOf(l.got), l.req))
                      IN Out(M, [l EXCEPT !.cmd = c, !.ret = RetTrue, !.todo = CommitSteps(c)])
            ELSE IF ~CanCancel(l.actor, ValueOf(l.got))
                 THEN Out(M, [l EXCEPT !.ret = AccessDenied, !.todo = GiveUpSteps])
                 ELSE LET c == TRemoveBookingCommand(l.req.Id)
                      IN Out(M, [l EXCEPT !.cmd = c, !.ret = RetTrue, !.todo = CommitSteps(c)])
       ELSE IF w = "RemoveGet"
       THEN LET old == RepoGetBooking(Repo, l.cmd.Id)
            IN Out(M, [l EXCEPT !.cmd.Old = old,
                                !.todo = IF old # None
                                         THEN <<Head(rest)>> \o RepoWrite("Remove") \o Tail(rest)
                                         ELSE rest])
       ELSE IF w \in {"Execute", "Remove", "Undo"}
       THEN LET x == Written(w, l)
            IN Out([M EXCEPT !.Bookings = x.repo.Bookings],
                   [l EXCEPT !.cmd = x.cmd,
                             !.je = Some(x.repo.journal[Len(x.repo.journal)]),
                             !.todo = rest])
       ELSE IF w = "SaveState"
       THEN Out([M EXCEPT !.snapshot = Persist(Bookings)], [l EXCEPT !.todo = rest])
       ELSE IF w = "AppendJournal"
       THEN Out([M EXCEPT !.journal = Append(journal, ValueOf(l.je))], [l EXCEPT !.todo = rest])
       ELSE IF w = "PushUndo"
       THEN LET h == PushUndo(UndoStack, l.cmd)
            IN Out([M EXCEPT !.UndoStack = h.UndoStack, !.RedoStack = h.RedoStack],
                   [l EXCEPT !.todo = rest])
       ELSE IF w = "PopUndo"
       THEN IF UndoStack = <<>>
            THEN Out(M, [l EXCEPT !.ret = RetNone, !.todo = <<Rel("History", "None")>>])
            ELSE LET c == UndoStack[Len(UndoStack)]
                 IN Out([M EXCEPT !.UndoStack = SubSeq(UndoStack, 1, Len(UndoStack) - 1)],
                        [l EXCEPT !.cmd = c,
                                  !.todo = UndoSteps(c) \o <<Rel("History", "PushRedo")>>])
       ELSE IF w = "PushRedo"
       THEN Out([M EXCEPT !.RedoStack = Append(RedoStack, l.cmd)], [l EXCEPT !.todo = rest])
       ELSE IF w = "PopRedo"
       THEN IF RedoStack = <<>>
            THEN Out(M, [l EXCEPT !.ret = RetNone, !.todo = <<Rel("History", "None")>>])
            ELSE LET c == RedoStack[Len(RedoStack)]
                 IN Out([M EXCEPT !.RedoStack = SubSeq(RedoStack, 1, Len(RedoStack) - 1)],
                        [l EXCEPT !.cmd = c,
                                  !.todo = ExecuteSteps(c) \o <<Rel("History", "PushBackUndo")>>])
       ELSE IF w = "PushBackUndo"
       THEN Out([M EXCEPT !.UndoStack = Append(UndoStack, l.cmd)], [l EXCEPT !.todo = rest])
       ELSE Out(M, [l EXCEPT !.todo = rest])

(* The work of the step at the head of the steps of t; the call returns    *)
(* when no step is left.                                                   *)
Worked(t) ==
    \E order \in ListAllOrders(Bookings) :
       LET r == Work(Head(local[t].todo)[3], local[t], Tail(local[t].todo), order)
       IN /\ Bookings' = r.M.Bookings
          /\ snapshot' = r.M.snapshot
          /\ journal' = r.M.journal
          /\ UndoStack' = r.M.UndoStack
          /\ RedoStack' = r.M.RedoStack
          /\ IF r.l.todo = <<>>
             THEN /\ local' = [local EXCEPT ![t] = IdleLocal]
                  /\ pc' = [pc EXCEPT ![t] = "idle"]
             ELSE /\ local' = [local EXCEPT ![t] = r.l]
                  /\ UNCHANGED pc

(* The constructor of a lock guard returns once the mutex is free. *)
L_Acquire(t) ==
    /\ pc[t] = "call"
    /\ Head(local[t].todo)[1] = "acq"
    /\ LockFree(Holder(Head(local[t].todo)[2]))
    /\ SetHolder(Head(local[t].todo)[2], t)
    /\ Worked(t)
    /\ UNCHANGED <<Strat, last>>

L_Release(t) ==
    /\ pc[t] = "call"
    /\ Head(local[t].todo)[1] = "rel"
    /\ SetHolder(Head(local[t].todo)[2], 0)
    /\ Worked(t)
    /\ UNCHANGED <<Strat, last>>

L_Step(t) == L_Acquire(t) \/ L_Release(t)

MaxJournalLocks == 3

(* Calls that may still write to the repository are started while the     *)
(* journal and the calls in progress leave room under MaxJournalLocks.     *)
NextLocks ==
    \E t \in Threads :
        \/ /\ Len(journal) + Cardinality({u \in Threads : pc[u] = "call"
                                               /\ local[u].op \notin {"Get", "List"}})
                 < MaxJournalLocks
           /\ \/ L_Call(t, "Create", MakeBooking(1, 0, 60), NormalUser, CreateBookingSteps)
              \/ L_Call(t, "Modify",
                        TChangeRequest(1, Some("retitled"), None, None, None, NormalUser),
                        NormalUser, ModifyBookingSteps)
              \/ L_Call(t, "Cancel", [Id |-> 1], NormalUser, CancelBookingSteps)
              \/ L_Call(t, "Undo", [Id |-> 0], NoUser, UndoCallSteps)
              \/ L_Call(t, "Redo", [Id |-> 0], NoUser, RedoCallSteps)
        \/ L_Call(t, "Get", [Id |-> 1], NoUser, RepoRead("GetBooking", "None"))
        \/ L_Call(t, "List", [Id |-> 0], NoUser, RepoRead("ListAll", "None"))
        \/ L_Acquire(t)
        \/ L_Release(t)

(* Every thread inside a call goes on running, and a guard that can be     *)
(* constructed again and again is constructed in the end.                  *)
SpecLocks ==
    Constructed(RejectStrategy) /\ [][NextLocks]_vars /\ \A t \in Threads : SF_vars(L_Step(t))

(***************************************************************************)
(* SpecUndoRedo: creates and cancels of one-off bookings with Undo and     *)
(* Redo, no Modify, under the Reject strategy.                             *)
(***************************************************************************)
MaxJournalUndoRedo == 7

NextUndoRedo ==
    /\ Len(journal) < MaxJournalUndoRedo
    /\ \/ \E req \in {MakeBooking(1, off, 60) : off \in {0, 60}} : \E order \in ListAllOrders(Bookings) :
              CreateBooking(req, NormalUser, order)
       \/ \E id \in LiveIds : CancelBooking(id, NormalUser)
       \/ Undo
       \/ Redo

SpecUndoRedo == Constructed(RejectStrategy) /\ [][NextUndoRedo]_vars

(***************************************************************************)
(* SpecRace: threads calling CreateBooking, Undo and Redo at the same      *)
(* time under the Reject strategy, at the grain of the mutexes.            *)
(***************************************************************************)
MaxJournalRace == 4

NextRace ==
    \E t \in Threads :
        \/ /\ Len(journal) + Cardinality({u \in Threads : pc[u] = "call"}) < MaxJournalRace
           /\ \/ L_Call(t, "Create", MakeBooking(1, 0, 60), NormalUser, CreateBookingSteps)
              \/ L_Call(t, "Undo", [Id |-> 0], NoUser, UndoCallSteps)
              \/ L_Call(t, "Redo", [Id |-> 0], NoUser, RedoCallSteps)
        \/ L_Acquire(t)
        \/ L_Release(t)

SpecRace == Constructed(RejectStrategy) /\ [][NextRace]_vars

(***************************************************************************)
(* SpecUndoAll: creates, modifications and cancellations from an empty     *)
(* repository, then Undo until it reports nothing.                         *)
(***************************************************************************)
MaxJournalUndoAll == 3

NextUndoAll ==
    \/ /\ last.op # "Undo"
       /\ Len(journal) < MaxJournalUndoAll
       /\ \/ \E req \in HistoryRequests : \E order \in ListAllOrders(Bookings) :
                 CreateBooking(req, NormalUser, order)
          \/ \E req \in HistoryChanges : ModifyBooking(req)
          \/ \E id \in CallIds : CancelBooking(id, NormalUser)
    \/ /\ last.ret # RetNone
       /\ Undo

SpecUndoAll == Constructed(RejectStrategy) /\ [][NextUndoAll]_vars

(***************************************************************************)
(* SpecLimitRedo: more sequential creates than the undo stack holds, then  *)
(* Undo and Redo calls in any order.                                       *)
(***************************************************************************)
MaxHistoryCalls == 4

NextLimitRedo ==
    \/ /\ last.op \in {"Init", "Create"}
       /\ Len(journal) < MaxCreates
       /\ IdentityOrder(Bookings) \in ListAllOrders(Bookings)
       /\ CreateBooking(MakeBooking(1, Len(journal) * 2, 1), NormalUser, IdentityOrder(Bookings))
    \/ /\ Len(journal) >= MaxCreates
       /\ Len(journal) < MaxCreates + MaxHistoryCalls
       /\ \/ Undo
          \/ Redo

SpecLimitRedo == Constructed(RejectStrategy) /\ [][NextLimitRedo]_vars

(***************************************************************************)
(* SpecModify: modifications that carry any subset of the four fields, of  *)
(* one-off and Daily bookings with attendees, resources and an owner       *)
(* priority, with Undo and Redo, under the Reject strategy.                *)
(***************************************************************************)
MaxJournalModify == 3

NextModify ==
    \/ /\ Len(journal) < MaxJournalModify
       /\ \/ \E rec \in {<<0, "None", None>>, <<60, "Daily", Some(Now + Hours(25))>>} :
                 \E order \in ListAllOrders(Bookings) :
                    CreateBooking([MakeBooking(1, rec[1], 60) EXCEPT !.RecType = rec[2],
                                                                     !.Until = rec[3],
                                                                     !.Attendees = <<1, 2>>,
                                                                     !.Resources = <<"projector-A">>,
                                                                     !.OwnerPriority = 50],
                                  NormalUser, order)
          \/ \E id \in LiveIds : \E title \in {None, Some("retitled")} :
                 \E desc \in {None, Some("moved")} : \E start \in {None, Some(Now + Minutes(30))} :
                    \E end \in {None, Some(Now + Minutes(45))} :
                       ModifyBooking(TChangeRequest(id, title, desc, start, end, NormalUser))
    \/ /\ Len(journal) < MaxJournalModify + 1
       /\ \/ Undo
          \/ Redo

SpecModify == Constructed(RejectStrategy) /\ [][NextModify]_vars

(***************************************************************************)
(* GenerateInstances at the grain of its while loop, one iteration a step, *)
(* so that the loop can be followed up to MAX_INSTANCES iterations.  The   *)
(* loop variables of the call are local[1].                                *)
(***************************************************************************)
ExpandRequest(b, from, to) == [Id |-> 0, Booking |-> b, From |-> from, To |-> to]

(* The call up to the loop: a booking without recurrence returns at once. *)
E_Call(b, from, to) ==
    /\ pc[1] = "idle"
    /\ IF b.RecType = "None"
       THEN /\ last' = Call("Expand", ExpandRequest(b, from, to), NoUser,
                            RetList(IF IntervalsOverlap(b.Start, b.End, from, to)
                                    THEN <<b>> ELSE <<>>))
            /\ pc' = [pc EXCEPT ![1] = "done"]
            /\ UNCHANGED local
       ELSE /\ local' = [local EXCEPT ![1] =
                            [b |-> b, from |-> from, to |-> to, cur_start |-> b.Start,
                             limit |-> IF b.Until # None /\ ValueOf(b.Until) < to
                                       THEN ValueOf(b.Until) ELSE to,
                             counter |-> 0, out |-> <<>>]]
            /\ pc' = [pc EXCEPT ![1] = "loop"]
            /\ UNCHANGED last
    /\ UNCHANGED <<repoVars, histVars, Strat, Mutex_, lockVars>>

(* Goes on until the limit, however many iterations that takes. *)
E_IterateUncapped ==
    /\ pc[1] = "loop"
    /\ LET l == local[1]
           cur_end == l.cur_start + (l.b.End - l.b.Start)
       IN IF l.cur_start < l.limit
          THEN /\ local' = [local EXCEPT ![1] =
                               [l EXCEPT !.out = IF IntervalsOverlap(l.cur_start, cur_end, l.from, l.to)
                                                 THEN Append(@, [l.b EXCEPT !.Start = l.cur_start,
                                                                            !.End = cur_end])
                                                 ELSE @,
                                         !.cur_start = IF l.b.RecType = "Daily" THEN @ + Hours(24)
                                                       ELSE @ + Hours(24 * 7),
                                         !.counter = @ + 1]]
               /\ UNCHANGED <<pc, last>>
          ELSE /\ last' = Call("Expand", ExpandRequest(l.b, l.from, l.to), NoUser, RetList(l.out))
               /\ pc' = [pc EXCEPT ![1] = "done"]
               /\ UNCHANGED local
    /\ UNCHANGED <<repoVars, histVars, Strat, Mutex_, lockVars>>

(* The test of the while loop and, when it holds, one run of its body. *)
E_Iterate ==
    /\ pc[1] = "loop"
    /\ LET l == local[1]
           cur_end == l.cur_start + (l.b.End - l.b.Start)
       IN IF l.cur_start < l.limit /\ l.counter < MAX_INSTANCES
          THEN /\ local' = [local EXCEPT ![1] =
                               [l EXCEPT !.out = IF IntervalsOverlap(l.cur_start, cur_end, l.from, l.to)
                                                 THEN Append(@, [l.b EXCEPT !.Start = l.cur_start,
                                                                            !.End = cur_end])
                                                 ELSE @,
                                         !.cur_start = IF l.b.RecType = "Daily" THEN @ + Hours(24)
                                                       ELSE @ + Hours(24 * 7),
                                         !.counter = @ + 1]]
               /\ UNCHANGED <<pc, last>>
          ELSE /\ last' = Call("Expand", ExpandRequest(l.b, l.from, l.to), NoUser, RetList(l.out))
               /\ pc' = [pc EXCEPT ![1] = "done"]
               /\ UNCHANGED local
    /\ UNCHANGED <<repoVars, histVars, Strat, Mutex_, lockVars>>

(***************************************************************************)
(* SpecExpand: one call of GenerateInstances for a one-off, Daily or       *)
(* Weekly booking of one hour or of 25 hours, with or without an end of    *)
(* the recurrence, over windows that start before the booking, inside its  *)
(* first occurrences, and, where the instants fit the 32-bit integers of   *)
(* the checker, at the last occurrence the loop can reach.                 *)
(***************************************************************************)
MaxWindowSteps == 2

RecurrenceStep(rtype) == IF rtype = "Weekly" THEN Hours(24 * 7) ELSE Hours(24)

(* The offsets, from the start of the booking, of the window starts. *)
WindowStarts(rtype) ==
    LET step == RecurrenceStep(rtype)
    IN {0 - Hours(24), Hours(12), 8 * step}
       \cup IF (MAX_INSTANCES + MaxWindowSteps + 2) * (step \div Hours(1)) < 2147483647 \div Hours(1)
            THEN {(MAX_INSTANCES - 1) * step - Hours(1)}
            ELSE {}

NextExpand ==
    \/ \E rtype \in {"None", "Daily", "Weekly"} : \E dur \in {60, 25 * 60} :
          \E f \in WindowStarts(rtype) :
             \E until \in {None, Some(Now + Hours(36)), Some(Now + f + Hours(2))} :
                \E w \in {Hours(1)} \cup {d * RecurrenceStep(rtype) : d \in 1..MaxWindowSteps} :
                   E_Call([MakeBooking(1, 0, dur) EXCEPT !.RecType = rtype, !.Until = until],
                          Now + f, Now + f + w)
    \/ E_Iterate

SpecExpand == Constructed(RejectStrategy) /\ [][NextExpand]_vars

(***************************************************************************)
(* The Resolve methods of TAutoBumpStrategy and TPreemptStrategy called on *)
(* their own.  TAutoBumpStrategy::Resolve is followed at the grain of its  *)
(* loops: local[1] holds start, the position i of the for loop over the    *)
(* existing occurrences, and moved.                                        *)
(***************************************************************************)
B_Call(b, existing) ==
    /\ pc[1] = "idle"
    /\ local' = [local EXCEPT ![1] = [b |-> b, existing |-> existing, start |-> b.Start,
                                      dur |-> b.End - b.Start, i |-> 1, moved |-> FALSE]]
    /\ pc' = [pc EXCEPT ![1] = "bump"]
    /\ UNCHANGED <<repoVars, histVars, Strat, last, Mutex_, lockVars>>

(* Shifts the candidate so that it ends where the occurrence starts. *)
B_StepShiftsBack ==
    /\ pc[1] = "bump"
    /\ LET l == local[1]
       IN IF l.i <= Len(l.existing)
          THEN LET e == l.existing[l.i]
               IN /\ local' = [local EXCEPT ![1] =
                                  IF ~(l.start + l.dur <= e.Start \/ l.start >= e.End)
                                  THEN [l EXCEPT !.start = e.Start - l.dur, !.moved = TRUE, !.i = @ + 1]
                                  ELSE [l EXCEPT !.i = @ + 1]]
                  /\ UNCHANGED <<pc, last>>
          ELSE IF l.moved
          THEN /\ local' = [local EXCEPT ![1] = [l EXCEPT !.moved = FALSE, !.i = 1]]
               /\ UNCHANGED <<pc, last>>
          ELSE /\ last' = Call("AutoBump", [Id |-> 0, Candidate |-> l.b, Existing |-> l.existing], NoUser,
                               [kind |-> "Resolution",
                                val |-> IF l.start # l.b.Start
                                        THEN Resolution(TRUE, Some(l.start), <<>>)
                                        ELSE Resolution(TRUE, None, <<>>)])
               /\ pc' = [pc EXCEPT ![1] = "done"]
               /\ UNCHANGED local
    /\ UNCHANGED <<repoVars, histVars, Strat, Mutex_, lockVars>>

(* One step of the for loop; at its end, the test of the while loop and    *)
(* either the next pass or the return.                                     *)
B_Step ==
    /\ pc[1] = "bump"
    /\ LET l == local[1]
       IN IF l.i <= Len(l.existing)
          THEN LET e == l.existing[l.i]
               IN /\ local' = [local EXCEPT ![1] =
                                  IF ~(l.start + l.dur <= e.Start \/ l.start >= e.End)
                                  THEN [l EXCEPT !.start = e.End, !.moved = TRUE, !.i = @ + 1]
                                  ELSE [l EXCEPT !.i = @ + 1]]
                  /\ UNCHANGED <<pc, last>>
          ELSE IF l.moved
          THEN /\ local' = [local EXCEPT ![1] = [l EXCEPT !.moved = FALSE, !.i = 1]]
               /\ UNCHANGED <<pc, last>>
          ELSE /\ last' = Call("AutoBump", [Id |-> 0, Candidate |-> l.b, Existing |-> l.existing], NoUser,
                               [kind |-> "Resolution",
                                val |-> IF l.start # l.b.Start
                                        THEN Resolution(TRUE, Some(l.start), <<>>)
                                        ELSE Resolution(TRUE, None, <<>>)])
               /\ pc' = [pc EXCEPT ![1] = "done"]
               /\ UNCHANGED local
    /\ UNCHANGED <<repoVars, histVars, Strat, Mutex_, lockVars>>

P_Call(candidate, existing, actor) ==
    /\ pc[1] = "idle"
    /\ last' = Call("Preempt", [Id |-> 0, Candidate |-> candidate, Existing |-> existing], actor,
                    [kind |-> "Resolution",
                     val |-> TPreemptStrategyResolve(candidate, existing, actor)])
    /\ pc' = [pc EXCEPT ![1] = "done"]
    /\ UNCHANGED <<repoVars, histVars, Strat, local, Mutex_, lockVars>>

(***************************************************************************)
(* SpecResolve: one call of a Resolve method for a candidate of 30 or 60   *)
(* minutes against up to MaxExisting occurrences, in any order, of three   *)
(* intervals that overlap in a chain, owned with priority 0 or 50.  The    *)
(* loop of TAutoBumpStrategy goes on as long as it has a step to take.     *)
(***************************************************************************)
MaxExisting == 3

(* The vectors of existing occurrences; an occurrence carries its position *)
(* as identifier.                                                          *)
ExistingVectors(priorities) ==
    UNION {{[i \in 1..n |-> [MakeBooking(1, f[i][1], f[i][2]) EXCEPT !.Id = i,
                                                                    !.OwnerPriority = f[i][3]]] :
               f \in [1..n -> {<<iv[1], iv[2], prio>> :
                                   iv \in {<<0, 60>>, <<30, 60>>, <<80, 70>>},
                                   prio \in priorities}]} :
           n \in 0..MaxExisting}

NextResolve ==
    \/ \E off \in {0, 30} : \E dur \in {30, 60} : \E existing \in ExistingVectors({0}) :
          B_Call(MakeBooking(1, off, dur), existing)
    \/ B_Step
    \/ \E off \in {0, 30} : \E existing \in ExistingVectors({0, 50}) :
          \E actor \in {AdminUser, ManagerUser, NormalUser} :
             P_Call(MakeBooking(1, off, 60), existing, actor)

SpecResolve == Constructed(RejectStrategy) /\ [][NextResolve]_vars /\ WF_vars(B_Step)

(***************************************************************************)
(* Vocabulary of the properties.                                           *)
(***************************************************************************)
SameRoom(a, b) == a.RoomIdInternal = b.RoomIdInternal
BaseOverlap(a, b) == a.Start < b.End /\ b.Start < a.End
Touching(a, b) == a.End = b.Start \/ b.End = a.Start

LastCreated == IF last.op = "Create" /\ last.ret.kind = "Some" THEN {last.ret.val} ELSE {}
(* The bookings that were live when the last call, a Create, started. *)
LiveBeforeCreate == LiveIds \ LastCreated

(* C1: under the Reject strategy a Create whose candidate overlaps the      *)
(* stored interval of a live booking of the same room returns no identifier *)
(* and adds nothing, so no Create that returned an identifier leaves such a *)
(* booking live beside the new one.                                         *)
C1_RejectOverlapFails ==
    (last.op = "Create" /\ Strat.kind = "Reject") =>
        \A k \in LiveBeforeCreate :
            (SameRoom(Bookings[k], last.req) /\ BaseOverlap(Bookings[k], last.req))
                => (last.ret = RetNone /\ LastCreated = {})

(* C3: under the Reject strategy a candidate that touches the only live     *)
(* booking, of the same room, at an endpoint is created, and both bookings  *)
(* are live afterwards.                                                     *)
C3_TouchingAllowed ==
    (last.op = "Create" /\ Strat.kind = "Reject") =>
        \A k \in LiveBeforeCreate :
            (LiveBeforeCreate = {k} /\ SameRoom(Bookings[k], last.req)
                /\ Touching(Bookings[k], last.req))
                => /\ last.ret.kind = "Some"
                   /\ last.ret.val \in LiveIds \ {k}
                   /\ Bookings[last.ret.val] = [last.req EXCEPT !.Id = last.ret.val]

C3_Witness ==
    /\ last.op = "Create" /\ Strat.kind = "Reject" /\ last.ret.kind = "Some"
    /\ \E k \in LiveIds : /\ LiveIds = {k, last.ret.val} /\ k # last.ret.val
                          /\ SameRoom(Bookings[k], last.req)
                          /\ last.req.Start = Bookings[k].End

Top(stack) == stack[Len(stack)]

(* The last call was a Create, Modify or Cancel that committed a command. *)
Pushed == last.op \in {"Create", "Modify", "Cancel"} /\ last.ret.kind \in {"Some", "True"}

(* C4: an Undo called right after a Create that returned i leaves i absent  *)
(* and holds the create command with the booking as it was stored; a Redo   *)
(* called right after the Undo of a create command stores that booking      *)
(* again under the same identifier.                                         *)
C4_Step ==
    /\ (last.op = "Create" /\ last.ret.kind = "Some" /\ last'.op = "Undo")
          => /\ last'.ret.kind = "Some"
             /\ last.ret.val \notin DOMAIN Bookings'
             /\ Top(RedoStack').kind = "Create"
             /\ Top(RedoStack').Booking = Bookings[last.ret.val]
    /\ (last.op = "Undo" /\ last.ret.kind = "Some" /\ Top(RedoStack).kind = "Create"
          /\ last'.op = "Redo")
          => /\ last'.ret.kind = "Some"
             /\ Top(RedoStack).Booking.Id \in DOMAIN Bookings'
             /\ Bookings'[Top(RedoStack).Booking.Id] = Top(RedoStack).Booking

C4_CreateUndoRedo == [][C4_Step]_vars

C4_Witness ==
    /\ last.op = "Redo" /\ last.ret.kind = "Some"
    /\ Top(UndoStack).kind = "Create"
    /\ Top(UndoStack).Booking.Id = last.ret.val
    /\ last.ret.val \in LiveIds
    /\ Bookings[last.ret.val] = Top(UndoStack).Booking

(* C5: an Undo called right after a successful Cancel(i) makes get(i) return *)
(* the cancelled booking, under identifier i, with the fields it had before  *)
(* the cancel.                                                               *)
C5_CancelUndoRestores ==
    [][(last.op = "Cancel" /\ last.ret = RetTrue /\ last'.op = "Undo")
          => /\ last.req.Id \in DOMAIN Bookings'
             /\ Bookings'[last.req.Id] = ValueOf(Top(UndoStack).Old)]_vars

(* C7: after every successful Create, Modify or Cancel the redo stack is    *)
(* empty, and a Redo called right after it returns nothing and changes      *)
(* neither the repository nor the undo stack.                               *)
C7_PushClearsRedo ==
    /\ [](Pushed => RedoStack = <<>>)
    /\ [][(Pushed /\ last'.op = "Redo")
             => (last'.ret = RetNone /\ UNCHANGED <<Bookings, snapshot, journal, UndoStack>>)]_vars

(* A Create committed right after the Undo of a create command, that is     *)
(* while the redo stack held that command.                                  *)
C7_Witness ==
    /\ last.op = "Create" /\ last.ret.kind = "Some"
    /\ RedoStack = <<>>
    /\ Len(journal) >= 2
    /\ journal[Len(journal) - 1].op = "remove"
    /\ (Len(UndoStack) = 1 \/ UndoStack[Len(UndoStack) - 1].kind # "Remove")

(* C8: Cancel and Modify of a live booking by an actor of role User who is  *)
(* not its owner raise AccessDenied and change neither the repository nor   *)
(* the history; by an Admin, a Manager or the owner they succeed.           *)
C8_AccessRules ==
    [][(last'.op \in {"Cancel", "Modify"} /\ last'.req.Id \in DOMAIN Bookings)
          => IF last'.actor.Role = "User"
                /\ last'.actor.Id # Bookings[last'.req.Id].UserIdInternal
             THEN /\ last'.ret = AccessDenied
                  /\ UNCHANGED <<Bookings, snapshot, journal, UndoStack, RedoStack>>
             ELSE last'.ret = RetTrue]_vars

C8_Witness ==
    /\ last.op = "Cancel" /\ last.ret = AccessDenied
    /\ last.actor.Role = "User"
    /\ last.req.Id \in LiveIds
    /\ Bookings[last.req.Id].UserIdInternal # last.actor.Id

JournalCount(op) == Cardinality({i \in 1..Len(journal) : journal[i].op = op})

(* C6: the undo stack never holds more than UNDO_LIMIT commands; after more *)
(* than UNDO_LIMIT successful creates in sequence, Undo succeeds at most    *)
(* UNDO_LIMIT times, and once it has, the stack is empty so that the next   *)
(* Undo reports nothing.                                                    *)
C6_UndoStackBounded ==
    /\ Len(UndoStack) <= UNDO_LIMIT
    /\ JournalCount("remove") <= UNDO_LIMIT
    /\ (JournalCount("remove") = UNDO_LIMIT => UndoStack = <<>>)
    /\ (last.op = "Undo" /\ last.ret = RetNone) => UndoStack = <<>>

C6_Witness ==
    /\ JournalCount("create") > UNDO_LIMIT
    /\ JournalCount("remove") = UNDO_LIMIT
    /\ last.op = "Undo" /\ last.ret = RetNone

(* The live bookings of the candidate's room whose stored interval the      *)
(* candidate overlaps.                                                      *)
Overlapped(B, req) ==
    {k \in DOMAIN B : SameRoom(B[k], req) /\ BaseOverlap(B[k], req)}

(* C9: under the Preempt strategy a Create by an Admin or Manager whose     *)
(* priority exceeds the owner priority of every live booking its candidate  *)
(* overlaps in the same room succeeds, the new booking is live and the      *)
(* overlapped bookings are no longer live; if the overlapped booking was    *)
(* the only live one, the new booking gets identifier 1.                    *)
C9_PreemptRemoves ==
    [][(/\ last'.op = "Create"
        /\ Strat.kind = "Preempt"
        /\ last'.actor.Role \in {"Admin", "Manager"}
        /\ Overlapped(Bookings, last'.req) # {}
        /\ \A k \in Overlapped(Bookings, last'.req) :
               last'.actor.Priority > Bookings[k].OwnerPriority)
          => /\ last'.ret.kind = "Some"
             /\ last'.ret.val \in DOMAIN Bookings'
             /\ Bookings'[last'.ret.val] = [last'.req EXCEPT !.Id = last'.ret.val]
             /\ \A k \in Overlapped(Bookings, last'.req) :
                    k \notin DOMAIN Bookings' \/ Bookings'[k] # Bookings[k]
             /\ (Cardinality(DOMAIN Bookings) = 1 => last'.ret.val = 1)]_vars

(* C10: under the Preempt strategy, when a booking A has just been created  *)
(* by an actor of priority p and the next call is a Create by an actor of   *)
(* priority q <= p whose candidate overlaps A in the same room, that Create *)
(* returns no identifier and A stays live.                                  *)
C10_LowerPriorityRejected ==
    [][(/\ last.op = "Create" /\ last.ret.kind = "Some"
        /\ Strat.kind = "Preempt"
        /\ last'.op = "Create"
        /\ last'.actor.Priority <= last.actor.Priority
        /\ last.ret.val \in Overlapped(Bookings, last'.req))
          => /\ last'.ret = RetNone
             /\ last.ret.val \in DOMAIN Bookings'
             /\ Bookings'[last.ret.val] = Bookings[last.ret.val]]_vars

InCriticalSection(t) == pc[t] \in {"list", "resolve", "get", "execute", "push", "return"}

(* At most one call is between reading the repository and committing. *)
MutualExclusion == Cardinality({t \in Threads : InCriticalSection(t)}) <= 1

(* C2: when threads call Create, Modify and Cancel concurrently under the   *)
(* Reject strategy, at most one call is between reading the repository and  *)
(* committing at any time; and once all calls have returned, if all of them *)
(* were Creates, with candidates of one room whose intervals overlap        *)
(* pairwise, exactly one has returned an identifier and the others empty.   *)
C2_OneCreateWins ==
    /\ MutualExclusion
    /\ (\A t \in Threads : pc[t] = "done" /\ local[t].op = "Create")
          => /\ Cardinality({t \in Threads : local[t].ret.kind = "Some"}) = 1
             /\ \A t \in Threads : local[t].ret.kind \in {"Some", "None"}
             /\ Cardinality(LiveIds) = 1

(* C11: after a Create that returned an identifier, the booking stored      *)
(* under it carries the acting user's priority as its owner priority,       *)
(* whatever the request carried.                                            *)
C11_OwnerPrioritySnapshot ==
    (last.op = "Create" /\ last.ret.kind = "Some" /\ last.ret.val \in LiveIds)
        => Bookings[last.ret.val].OwnerPriority = last.actor.Priority

(* The resolution of the Preempt strategy for the first occurrence of the   *)
(* candidate against the live bookings names a booking to preempt.          *)
NamesPreemption(B, req, actor) ==
    \E order \in ListAllOrders(B) :
        LET res == TPreemptStrategyResolve(RequestedInst(req)[1],
                                           ExistingInst(req, B, order, 1, Len(order)), actor)
        IN res.ok /\ res.ToPreempt # <<>>

(* C12: under the Preempt strategy a Create by an actor of role User whose  *)
(* resolution names a booking to preempt returns empty, creates no booking  *)
(* and removes none.                                                        *)
C12_UserCannotPreempt ==
    [][(/\ last'.op = "Create"
        /\ Strat.kind = "Preempt"
        /\ last'.actor.Role = "User"
        /\ NamesPreemption(Bookings, last'.req, last'.actor))
          => /\ last'.ret = RetNone
             /\ Bookings' = Bookings]_vars

(* C13: under the Quorum strategy a Create whose candidate overlaps a live  *)
(* booking of the same room returns an identifier exactly when the          *)
(* candidate has at least the threshold number of attendees, and a Create   *)
(* whose candidate overlaps no live booking returns an identifier.          *)
C13_QuorumDecides ==
    [][(last'.op = "Create" /\ Strat.kind = "Quorum")
          => IF Overlapped(Bookings, last'.req) # {}
             THEN (last'.ret.kind = "Some") <=> (Len(last'.req.Attendees) >= Strat.Quorum)
             ELSE last'.ret.kind = "Some"]_vars

(* C14: under the AutoBump strategy a Create whose one-off candidate        *)
(* overlaps live bookings of the same room returns an identifier, and the   *)
(* booking committed under it has the request's duration, starts no earlier *)
(* than the end of every booking the candidate overlapped, and overlaps no  *)
(* live booking of the room.                                                *)
C14_AutoBumpFindsFreeSlot ==
    [][(/\ last'.op = "Create"
        /\ Strat.kind = "AutoBump"
        /\ last'.req.RecType = "None"
        /\ Overlapped(Bookings, last'.req) # {})
          => /\ last'.ret.kind = "Some"
             /\ last'.ret.val \in DOMAIN Bookings'
             /\ LET nb == Bookings'[last'.ret.val]
                IN /\ nb.End - nb.Start = last'.req.End - last'.req.Start
                   /\ \A k \in Overlapped(Bookings, last'.req) : nb.Start >= Bookings[k].End
                   /\ Overlapped(Bookings, nb) = {}]_vars

ResourceIds(b) == {b.Resources[i] : i \in 1..Len(b.Resources)}
SharesResource(a, b) == ResourceIds(a) \cap ResourceIds(b) # {}

(* C15: under the Reject strategy a Create whose candidate is in another    *)
(* room than every live booking and shares no resource identifier with any  *)
(* of them returns an identifier and stores the candidate, whether or not   *)
(* their intervals overlap.                                                 *)
C15_UnrelatedNeverConflict ==
    [][(/\ last'.op = "Create"
        /\ Strat.kind = "Reject"
        /\ \A k \in DOMAIN Bookings :
               ~SameRoom(Bookings[k], last'.req) /\ ~SharesResource(Bookings[k], last'.req))
          => /\ last'.ret.kind = "Some"
             /\ last'.ret.val \notin DOMAIN Bookings
             /\ Bookings' = Put(Bookings, last'.ret.val, [last'.req EXCEPT !.Id = last'.ret.val])]_vars

C15_Witness ==
    /\ last.op = "Create" /\ Strat.kind = "Reject" /\ last.ret.kind = "Some"
    /\ LiveBeforeCreate # {}
    /\ \A k \in LiveBeforeCreate :
           /\ ~SameRoom(Bookings[k], last.req) /\ ~SharesResource(Bookings[k], last.req)
           /\ BaseOverlap(Bookings[k], last.req)
    /\ \E k \in LiveBeforeCreate : Bookings[k].Resources # <<>> /\ last.req.Resources # <<>>

(* C16: under the Reject strategy a Create whose candidate shares a         *)
(* resource identifier with a live booking and overlaps it in time returns  *)
(* empty and stores nothing, also when the two are in different rooms; and  *)
(* a Create returns empty only if the candidate overlaps a live booking of  *)
(* its room or one it shares a resource with.                               *)
C16_SharedResourceConflicts ==
    [][(last'.op = "Create" /\ Strat.kind = "Reject")
          => /\ (\E k \in DOMAIN Bookings :
                     SharesResource(Bookings[k], last'.req) /\ BaseOverlap(Bookings[k], last'.req))
                   => (last'.ret = RetNone /\ Bookings' = Bookings)
             /\ last'.ret = RetNone
                   => \E k \in DOMAIN Bookings :
                          /\ SameRoom(Bookings[k], last'.req) \/ SharesResource(Bookings[k], last'.req)
                          /\ BaseOverlap(Bookings[k], last'.req)]_vars

(* The days a recurrence is followed over in the properties. *)
RecurrenceDays == 2

(* C17: under the Reject strategy, while a Daily booking A with an until is *)
(* live, a Create of a one-off candidate of the same room that occupies the *)
(* slot of A shifted by k days, for a k with A.Start + k*24h before A's     *)
(* until, returns empty and stores nothing.                                 *)
C17_RecurrenceInstanceConflict ==
    [][(/\ last'.op = "Create"
        /\ Strat.kind = "Reject"
        /\ last'.req.RecType = "None"
        /\ \E a \in DOMAIN Bookings : \E k \in 0..RecurrenceDays :
               /\ Bookings[a].RecType = "Daily" /\ Bookings[a].Until # None
               /\ SameRoom(Bookings[a], last'.req)
               /\ last'.req.Start = Bookings[a].Start + k * Hours(24)
               /\ last'.req.End = Bookings[a].End + k * Hours(24)
               /\ Bookings[a].Start + k * Hours(24) < ValueOf(Bookings[a].Until))
          => (last'.ret = RetNone /\ Bookings' = Bookings)]_vars

(* The intervals a booking occupies: its own, and for a Daily booking the   *)
(* same slot on each later day that starts before its until.                *)
Occurrences(b) ==
    {<<b.Start + k * Hours(24), b.End + k * Hours(24)>> :
        k \in {j \in 0..RecurrenceDays :
                  \/ j = 0
                  \/ /\ b.RecType = "Daily"
                     /\ (b.Until = None \/ b.Start + j * Hours(24) < ValueOf(b.Until))}}

OccurrencesOverlap(a, b) ==
    \E x \in Occurrences(a) : \E y \in Occurrences(b) : x[1] < y[2] /\ y[1] < x[2]

(* C18: under the Reject strategy, while a Daily booking of the room is     *)
(* live, a Create of a Daily candidate of that room none of whose           *)
(* occurrences overlaps an occurrence of a live booking of the room returns *)
(* an identifier and stores the candidate.                                  *)
C18_DisjointRecurrencesCoexist ==
    [][(/\ last'.op = "Create"
        /\ Strat.kind = "Reject"
        /\ last'.req.RecType = "Daily"
        /\ \E a \in DOMAIN Bookings : Bookings[a].RecType = "Daily"
        /\ \A a \in DOMAIN Bookings : ~OccurrencesOverlap(Bookings[a], last'.req))
          => /\ last'.ret.kind = "Some"
             /\ last'.ret.val \notin DOMAIN Bookings
             /\ Bookings' = Put(Bookings, last'.ret.val, [last'.req EXCEPT !.Id = last'.ret.val])]_vars

(* A Daily candidate created beside a live Daily booking whose later        *)
(* occurrence it would meet one day after that booking's until.             *)
C18_Witness ==
    /\ last.op = "Create" /\ Strat.kind = "Reject" /\ last.ret.kind = "Some"
    /\ last.req.RecType = "Daily"
    /\ \E a \in LiveBeforeCreate :
           /\ Bookings[a].RecType = "Daily"
           /\ ~OccurrencesOverlap(Bookings[a], last.req)
           /\ last.req.Start = Bookings[a].Start + Hours(24)
           /\ ValueOf(Bookings[a].Until) = Bookings[a].Start + Hours(24)

(* C19: a Create that returns empty leaves the live bookings, the snapshot, *)
(* the journal and both history stacks as they were.                        *)
C19_RejectedCreateCommitsNothing ==
    [][(last'.op = "Create" /\ last'.ret = RetNone)
          => UNCHANGED <<Bookings, snapshot, journal, UndoStack, RedoStack>>]_vars

(* A Daily candidate rejected on its second occurrence: its first day is    *)
(* free and a live booking occupies its slot of the next day.               *)
C19_Witness ==
    /\ last.op = "Create" /\ last.ret = RetNone
    /\ last.req.RecType = "Daily"
    /\ ValueOf(last.req.Until) > last.req.Start + Hours(24)
    /\ \A a \in LiveIds : ~BaseOverlap(Bookings[a], last.req)
    /\ \E a \in LiveIds :
           /\ Bookings[a].Start < last.req.End + Hours(24)
           /\ last.req.Start + Hours(24) < Bookings[a].End

(* The last step appended a "create" entry to the journal. *)
RepositoryCreated ==
    /\ Len(journal') = Len(journal) + 1
    /\ journal'[Len(journal')].op = "create"

(* C20: the identifiers of the live bookings are pairwise distinct and each *)
(* stored booking carries the identifier it is stored under; a repository   *)
(* create stores the booking under an identifier one above the largest live *)
(* one (1 when none is live) and leaves every live booking as it was.       *)
C20_IdentifiersUnique ==
    /\ [](/\ \A k \in LiveIds : Bookings[k].Id = k
          /\ \A k1, k2 \in LiveIds : k1 # k2 => Bookings[k1].Id # Bookings[k2].Id)
    /\ [][RepositoryCreated
            => LET id == journal'[Len(journal')].booking.id
               IN /\ \A k \in DOMAIN Bookings : k < id
                  /\ id = 1 \/ (id - 1) \in DOMAIN Bookings
                  /\ DOMAIN Bookings' = DOMAIN Bookings \cup {id}
                  /\ \A k \in DOMAIN Bookings : Bookings'[k] = Bookings[k]]_vars

(* A create into a repository whose live identifiers have a gap below the   *)
(* largest one.                                                             *)
C20_Witness ==
    /\ last.op = "Create" /\ last.ret.kind = "Some"
    /\ LiveBeforeCreate # {}
    /\ Cardinality(LiveBeforeCreate) < last.ret.val - 1
    /\ last.ret.val \in LiveIds /\ Bookings[last.ret.val].Id = last.ret.val

(* C21: a repository create into a non-empty live set stores the booking    *)
(* under an identifier larger than every identifier a create handed out     *)
(* before, unless it is the Undo of a cancel putting the same booking back  *)
(* under the identifier it had.                                             *)
C21_IdentifiersNeverReused ==
    [][(RepositoryCreated /\ DOMAIN Bookings # {})
          => LET new == journal'[Len(journal')].booking
             IN \A i \in 1..Len(journal) :
                    journal[i].op = "create"
                        => \/ journal[i].booking.id < new.id
                           \/ last'.op = "Undo" /\ journal[i].booking = new]_vars

(* C22: a push onto an undo stack that holds UNDO_LIMIT commands drops the  *)
(* oldest command and keeps the others in order under the new one; and once *)
(* more than UNDO_LIMIT sequential creates have been undone until Undo      *)
(* reports nothing, exactly the bookings created before the last UNDO_LIMIT *)
(* ones are live (the first one, after UNDO_LIMIT + 1 creates).             *)
C22_OldestEvicted ==
    /\ [][(Len(UndoStack) = UNDO_LIMIT /\ Pushed' /\ last' # last)
             => /\ Len(UndoStack') = UNDO_LIMIT
                /\ SubSeq(UndoStack', 1, UNDO_LIMIT - 1) = Tail(UndoStack)
                /\ UndoStack'[UNDO_LIMIT].Booking.Id = last'.ret.val]_vars
    /\ []((last.op = "Undo" /\ last.ret = RetNone /\ JournalCount("create") > UNDO_LIMIT)
             => LiveIds = 1..(JournalCount("create") - UNDO_LIMIT))

C22_Witness ==
    /\ last.op = "Undo" /\ last.ret = RetNone
    /\ JournalCount("create") > UNDO_LIMIT
    /\ 1 \in LiveIds
    /\ LiveIds = 1..(JournalCount("create") - UNDO_LIMIT)
    /\ Len(UndoStack) = 0 /\ Len(RedoStack) = UNDO_LIMIT

(* C23: the snapshot always holds exactly the live bookings, and every step *)
(* that changes the live set (a Create, Modify or Cancel, or an Undo or     *)
(* Redo) appends exactly one journal entry, tagged create, update or        *)
(* remove, that describes the change.                                       *)
C23_SnapshotAndJournalFollow ==
    /\ [](snapshot = {BookingToJson(Bookings[k]) : k \in DOMAIN Bookings})
    /\ [][Bookings' # Bookings
             => /\ Len(journal') = Len(journal) + 1
                /\ SubSeq(journal', 1, Len(journal)) = journal
                /\ LET je == journal'[Len(journal')]
                   IN \/ /\ je.op = "create"
                         /\ je.booking.id \notin DOMAIN Bookings
                         /\ DOMAIN Bookings' = DOMAIN Bookings \cup {je.booking.id}
                         /\ BookingToJson(Bookings'[je.booking.id]) = je.booking
                         /\ \A k \in DOMAIN Bookings : Bookings'[k] = Bookings[k]
                      \/ /\ je.op = "update"
                         /\ DOMAIN Bookings' = DOMAIN Bookings \cup {je.booking.id}
                         /\ BookingToJson(Bookings'[je.booking.id]) = je.booking
                         /\ \A k \in DOMAIN Bookings \ {je.booking.id} :
                                Bookings'[k] = Bookings[k]
                      \/ /\ je.op = "remove"
                         /\ je.id \in DOMAIN Bookings
                         /\ Bookings' = Erase(Bookings, je.id)]_vars

C23_Witness ==
    /\ last.op = "Redo" /\ last.ret # RetNone
    /\ Len(journal) >= 3
    /\ journal[Len(journal)].op = "update"
    /\ journal[Len(journal) - 1].op = "remove"
    /\ snapshot # {}

(* C24: a repository constructed over the snapshot the previous one wrote   *)
(* holds the same bookings, equal in every field.                           *)
C24_ReloadKeepsEveryField ==
    [][last'.op = "Reload" => Bookings' = Bookings]_vars

(* C25: SetStrategy installs the policy it is given and leaves the live     *)
(* set, the snapshot, the journal and both stacks alone; no other call      *)
(* changes the policy; and every Create is decided by the policy in force   *)
(* when it starts, that is, by the one the latest SetStrategy installed.    *)
C25_SetStrategyOnlySwapsPolicy ==
    /\ [][last'.op = "SetStrategy"
             => /\ Strat' = last'.req.Strategy
                /\ UNCHANGED <<Bookings, snapshot, journal, UndoStack, RedoStack>>]_vars
    /\ [][last'.op # "SetStrategy" => Strat' = Strat]_vars
    /\ [][(last'.op = "Create" /\ last' # last /\ CanCreate(last'.actor))
             => \E order \in ListAllOrders(Bookings) :
                   LET d == Decide(Strat, last'.req, last'.actor, Bookings, order)
                   IN IF d.ok
                      THEN /\ last'.ret.kind = "Some"
                           /\ last'.ret.val \in DOMAIN Bookings'
                           /\ Bookings'[last'.ret.val] = [d.Booking EXCEPT !.Id = last'.ret.val]
                      ELSE /\ last'.ret = RetNone
                           /\ Bookings' = Bookings]_vars

C25_Witness ==
    /\ Strat = AutoBumpStrategy
    /\ last.op = "Create" /\ last.ret.kind = "Some"
    /\ Bookings[last.ret.val].Start # last.req.Start
    /\ Cardinality(LiveIds) = 2

(* C26: a Cancel or a Modify that names an identifier that is not live      *)
(* returns false, whoever the actor is, and leaves the repository, its      *)
(* storage and both stacks as they were.                                    *)
C26_UnknownIdReturnsFalse ==
    [][(last'.op \in {"Cancel", "Modify"} /\ last' # last
            /\ last'.req.Id \notin DOMAIN Bookings)
          => /\ last'.ret = RetFalse
             /\ UNCHANGED <<Bookings, snapshot, journal, UndoStack, RedoStack>>]_vars

C26_Witness ==
    /\ last.op = "Cancel"
    /\ last.actor = OtherUser
    /\ last.req.Id \notin LiveIds
    /\ last.ret = RetFalse
    /\ LiveIds # {}
    /\ \A k \in LiveIds : Bookings[k].UserIdInternal # OtherUser.Id

(* The indices of the events an import accepts, in order: an event is       *)
(* accepted when it overlaps, in its room, neither a live booking nor an    *)
(* event accepted before it.                                                *)
RECURSIVE AcceptedEvents(_, _, _)
AcceptedEvents(events, j, live) ==
    IF j > Len(events) THEN <<>>
    ELSE IF \E b \in live : SameRoom(b, events[j]) /\ BaseOverlap(b, events[j])
    THEN AcceptedEvents(events, j + 1, live)
    ELSE <<j>> \o AcceptedEvents(events, j + 1, live \cup {events[j]})

(* C27: an import by a User is refused before the adapter is asked and      *)
(* changes nothing; an import by an Admin or Manager returns, in event      *)
(* order, the identifiers of exactly the events the Reject policy admits    *)
(* (those overlapping neither a live booking nor an earlier admitted        *)
(* event), each stored by one ordinary create, events after a rejected one  *)
(* included.                                                                *)
C27_ImportThroughCreate ==
    /\ [][(last'.op = "Import" /\ last'.actor.Role = "User")
             => /\ last'.ret = AccessDenied
                /\ ~last'.req.Fetched
                /\ UNCHANGED <<Bookings, snapshot, journal, UndoStack, RedoStack>>]_vars
    /\ [][(last'.op = "Import" /\ last'.actor.Role \in {"Admin", "Manager"})
             => LET events == last'.req.Events
                    imp == last'.ret.val
                    acc == AcceptedEvents(events, 1, {Bookings[k] : k \in DOMAIN Bookings})
                IN /\ last'.ret.kind = "List"
                   /\ Len(imp) = Len(acc)
                   /\ DOMAIN Bookings' = DOMAIN Bookings \cup {imp[k] : k \in 1..Len(imp)}
                   /\ \A k \in DOMAIN Bookings : Bookings'[k] = Bookings[k]
                   /\ Len(journal') = Len(journal) + Len(imp)
                   /\ \A k \in 1..Len(imp) :
                         /\ imp[k] \notin DOMAIN Bookings
                         /\ \A m \in 1..(k - 1) : imp[m] < imp[k]
                         /\ Bookings'[imp[k]] = [EventBooking(events[acc[k]]) EXCEPT !.Id = imp[k]]
                         /\ journal'[Len(journal) + k] =
                                [op |-> "create", booking |-> BookingToJson(Bookings'[imp[k]])]
                         /\ UndoStack'[Len(UndoStack') - (Len(imp) - k)].Booking = Bookings'[imp[k]]]_vars

C27_Witness ==
    /\ last.op = "Import" /\ last.actor = ManagerUser
    /\ Len(last.req.Events) = 3
    /\ last.ret.kind = "List" /\ Len(last.ret.val) = 2
    /\ BaseOverlap(last.req.Events[1], last.req.Events[2])
    /\ Bookings[last.ret.val[2]].Start = last.req.Events[3].Start

LockNames == {"Mutex", "History", "Repo", "Storage"}
Rank(m) == IF m = "Mutex" THEN 1 ELSE IF m = "History" THEN 2 ELSE IF m = "Repo" THEN 3 ELSE 4
Holds(t) == {m \in LockNames : Holder(m) = t}
InCall(t) == pc[t] = "call"
Wants(t) ==
    IF InCall(t) /\ Head(local[t].todo)[1] = "acq"
    THEN {Head(local[t].todo)[2]} ELSE {}
Waiting(t) == \E m \in Wants(t) : Holder(m) # 0

C29_NoLiveOverlap ==
    \A a, b \in LiveIds :
        (a # b /\ Bookings[a].RecType = "None" /\ Bookings[b].RecType = "None"
             /\ SameRoom(Bookings[a], Bookings[b]))
            => ~BaseOverlap(Bookings[a], Bookings[b])

(* C30: a Redo called right after an Undo that undid a command leaves the   *)
(* live bookings and both stacks as the Undo found them, whatever the kind  *)
(* of the command.                                                          *)
C30_UndoThenRedoRestores ==
    [][(last.op = "Undo" /\ last.ret.kind = "Some" /\ last'.op = "Redo")
          => /\ Bookings' = last.req.Before.Bookings
             /\ UndoStack' = last.req.Before.UndoStack
             /\ RedoStack' = last.req.Before.RedoStack]_vars

(* C31: under the Reject strategy no interleaving of Create calls with Undo *)
(* and Redo calls leaves two live bookings of one room whose intervals      *)
(* overlap.                                                                 *)
C31_CreateSeesCommittedSet ==
    \A a, b \in LiveIds :
        (a # b /\ SameRoom(Bookings[a], Bookings[b]))
            => ~BaseOverlap(Bookings[a], Bookings[b])

(* The bookings a command on top of a stack was recorded for, as they stand *)
(* in the repository when the command is about to be undone or redone.     *)
RecordedFor(cmd, undoing) ==
    IF cmd.kind = "Create" THEN (IF undoing THEN {cmd.Booking} ELSE {})
    ELSE IF cmd.kind = "Update" THEN (IF undoing THEN {cmd.After} ELSE {cmd.Before})
    ELSE (IF undoing THEN {} ELSE cmd.Old)

(* C32: an Undo or Redo that undoes or redoes a command replaces or removes *)
(* no live booking other than the one the command was recorded for.         *)
C32_HistoryWritesOwnBooking ==
    [][(last'.op \in {"Undo", "Redo"} /\ last'.ret.kind = "Some")
          => LET cmd == IF last'.op = "Undo" THEN Top(UndoStack) ELSE Top(RedoStack)
             IN \A k \in DOMAIN Bookings :
                    (k \notin DOMAIN Bookings' \/ Bookings'[k] # Bookings[k])
                        => Bookings[k] \in RecordedFor(cmd, last'.op = "Undo")]_vars

(* C33: from an empty repository, after Create, Modify and Cancel calls     *)
(* fewer than UNDO_LIMIT of which succeeded, once Undo has been called      *)
(* until it reports nothing, no booking is live.                            *)
C33_UndoAllEmpties ==
    (last.op = "Undo" /\ last.ret = RetNone) => LiveIds = {}

(* C34: the undo stack and the redo stack never hold more than UNDO_LIMIT   *)
(* commands together, so that the undo stack stays within UNDO_LIMIT also   *)
(* after a Redo, which pushes without looking at the limit.                 *)
C34_StacksBoundedTogether ==
    /\ Len(UndoStack) + Len(RedoStack) <= UNDO_LIMIT
    /\ Len(UndoStack) <= UNDO_LIMIT

(* A Redo that fills the undo stack up to the limit again, after the oldest *)
(* command was evicted.                                                     *)
C34_Witness ==
    /\ last.op = "Redo" /\ last.ret.kind = "Some"
    /\ JournalCount("create") > UNDO_LIMIT
    /\ Len(UndoStack) = UNDO_LIMIT
    /\ RedoStack = <<>>

(* C35: a Modify that returns true writes to the booking it names exactly   *)
(* the fields the request carries among title, description, start and end;  *)
(* the identifier, room, owner, recurrence, attendees, resources and owner  *)
(* priority of the booking and the fields the request does not carry keep   *)
(* their values, every other live booking is unchanged, and one update      *)
(* command, holding the booking before and after, is pushed on the undo     *)
(* stack.                                                                   *)
C35_ModifyTouchesRequestedFields ==
    [][(last'.op = "Modify" /\ last'.ret = RetTrue)
          => LET req == last'.req
                 old == Bookings[req.Id]
                 new == Bookings'[req.Id]
             IN /\ req.Id \in DOMAIN Bookings
                /\ DOMAIN Bookings' = DOMAIN Bookings
                /\ \A k \in DOMAIN Bookings \ {req.Id} : Bookings'[k] = Bookings[k]
                /\ new.Title = IF req.Title # None THEN ValueOf(req.Title) ELSE old.Title
                /\ new.Description = IF req.Description # None THEN ValueOf(req.Description)
                                     ELSE old.Description
                /\ new.Start = IF req.Start # None THEN ValueOf(req.Start) ELSE old.Start
                /\ new.End = IF req.End # None THEN ValueOf(req.End) ELSE old.End
                /\ \A f \in {"Id", "RoomIdInternal", "UserIdInternal", "RecType", "Until",
                             "Attendees", "Resources", "OwnerPriority"} : new[f] = old[f]
                /\ Len(UndoStack') = Len(UndoStack) + 1
                /\ SubSeq(UndoStack', 1, Len(UndoStack)) = UndoStack
                /\ Top(UndoStack') = TUpdateBookingCommand(old, new)]_vars

(* A Modify of one of two live bookings, a Daily one, that carries a start  *)
(* and no title.                                                            *)
C35_Witness ==
    /\ last.op = "Modify" /\ last.ret = RetTrue
    /\ last.req.Title = None /\ last.req.Start # None
    /\ Cardinality(LiveIds) = 2
    /\ Bookings[last.req.Id].RecType = "Daily"
    /\ Bookings[last.req.Id].Start = ValueOf(last.req.Start)
    /\ Bookings[last.req.Id].Title = "title"
    /\ Bookings[last.req.Id].OwnerPriority = 50

(* C36: an Undo called right after a Modify of booking i that returned true *)
(* stores under i the booking as it was before the Modify, every field      *)
(* included; a Redo called right after the Undo of an update command        *)
(* stores, under the same identifier, the booking as modified.              *)
C36_ModifyUndoRedo ==
    /\ [][(last.op = "Modify" /\ last.ret = RetTrue /\ last'.op = "Undo")
             => /\ last'.ret.kind = "Some"
                /\ Top(UndoStack).Before.Id = last.req.Id
                /\ Bookings' = Put(Bookings, last.req.Id, Top(UndoStack).Before)
                /\ Bookings'[last.req.Id].Id = last.req.Id]_vars
    /\ [][(last.op = "Undo" /\ last.ret.kind = "Some" /\ Top(RedoStack).kind = "Update"
             /\ last'.op = "Redo")
             => LET cmd == Top(RedoStack)
                IN /\ last'.ret.kind = "Some"
                   /\ cmd.After.Id = cmd.Before.Id
                   /\ Bookings' = Put(Bookings, cmd.Before.Id, cmd.After)
                   /\ Top(UndoStack') = cmd]_vars

(* Modify of start and end, Undo, Redo: the booking is as modified again. *)
C36_Witness ==
    /\ last.op = "Redo" /\ last.ret.kind = "Some"
    /\ Len(journal) >= 3
    /\ \A k \in 0..2 : journal[Len(journal) - k].op = "update"
    /\ journal[Len(journal) - 1].booking # journal[Len(journal)].booking
    /\ journal[Len(journal) - 2].booking = journal[Len(journal)].booking
    /\ Top(UndoStack).kind = "Update"
    /\ Top(UndoStack).After.Start # Top(UndoStack).Before.Start
    /\ Bookings[last.ret.val] = Top(UndoStack).After

(* The indices k below MAX_INSTANCES of the occurrences of b that start     *)
(* before lim and overlap the window from..to.                              *)
OccurrenceIndices(b, from, to, lim) ==
    LET step == RecurrenceStep(b.RecType)
        last_k == IF to <= b.Start THEN 0 ELSE (to - b.Start) \div step + 1
    IN {k \in 0..(IF last_k < MAX_INSTANCES THEN last_k ELSE MAX_INSTANCES - 1) :
           /\ b.Start + k * step < lim
           /\ b.Start + k * step < to
           /\ from < b.End + k * step}

(* C37: GenerateInstances returns, for a Daily or Weekly booking, the       *)
(* occurrences [Start + k*step, End + k*step) with 0 <= k < MAX_INSTANCES   *)
(* that start before the earlier of the window's end and the recurrence's   *)
(* end and overlap the window, in increasing k, equal to the booking in     *)
(* every other field; for a booking without recurrence, the booking itself  *)
(* if it overlaps the window and nothing otherwise.  Over the windows near  *)
(* the booking the loop followed step by step returns what the recursive    *)
(* definition returns.                                                      *)
C37_ExpansionExact ==
    last.op = "Expand" =>
        LET b == last.req.Booking
            from == last.req.From
            to == last.req.To
            out == last.ret.val
        IN /\ b.RecType = "None"
                => out = IF b.Start < to /\ from < b.End THEN <<b>> ELSE <<>>
           /\ b.RecType # "None"
                => LET step == RecurrenceStep(b.RecType)
                       lim == IF b.Until # None /\ ValueOf(b.Until) < to
                              THEN ValueOf(b.Until) ELSE to
                       K == OccurrenceIndices(b, from, to, lim)
                   IN /\ Len(out) = Cardinality(K)
                      /\ \A i \in 1..Len(out) :
                            LET k == (CHOOSE m \in K : \A n \in K : m <= n) + i - 1
                            IN /\ k \in K
                               /\ out[i] = [b EXCEPT !.Start = b.Start + k * step,
                                                     !.End = b.End + k * step]
           /\ to - b.Start <= 10 * RecurrenceStep(b.RecType)
                => out = GenerateInstances(b, from, to)

(* A Daily booking without an end expanded over a window that reaches past  *)
(* its occurrence number MAX_INSTANCES: the last occurrence returned is the *)
(* one of index MAX_INSTANCES - 1.                                          *)
C37_Witness ==
    /\ last.op = "Expand"
    /\ last.req.Booking.RecType = "Daily" /\ last.req.Booking.Until = None
    /\ last.req.To > last.req.Booking.Start + MAX_INSTANCES * Hours(24)
    /\ last.req.From < last.req.Booking.End + MAX_INSTANCES * Hours(24)
    /\ last.ret.val # <<>>
    /\ Top(last.ret.val).Start = last.req.Booking.Start + (MAX_INSTANCES - 1) * Hours(24)
    /\ local[1].counter = MAX_INSTANCES

(* C38: in the loop of TAutoBumpStrategy every shift moves the start to the *)
(* end of an existing occurrence, later than the start it had; the loop     *)
(* ends for every candidate and vector of occurrences; when it has ended    *)
(* the shifted interval overlaps no occurrence, and the resolution, which   *)
(* is the one the strategy of the manager computes, suggests the start      *)
(* exactly when it differs from the candidate's.                            *)
C38_AutoBumpTerminates ==
    /\ [][(pc[1] = "bump" /\ pc'[1] = "bump" /\ local'[1].start # local[1].start)
             => /\ local'[1].start > local[1].start
                /\ local'[1].start = local[1].existing[local[1].i].End]_vars
    /\ [](last.op = "AutoBump"
             => LET l == local[1]
                    res == last.ret.val
                IN /\ \A k \in 1..Len(l.existing) :
                         ~IntervalsOverlap(l.start, l.start + l.dur,
                                           l.existing[k].Start, l.existing[k].End)
                   /\ res.ok
                   /\ res.SuggestedStart = IF l.start # l.b.Start THEN Some(l.start) ELSE None
                   /\ res = TAutoBumpStrategyResolve(l.b, l.existing, NoUser))
    /\ (pc[1] = "bump") ~> (pc[1] = "done")

(* A shift past the second occurrence lands on the first one, which the     *)
(* candidate did not overlap: the next pass shifts it again.                *)
C38_Witness ==
    /\ last.op = "AutoBump"
    /\ Len(local[1].existing) = 2
    /\ ~BaseOverlap(local[1].b, local[1].existing[1])
    /\ BaseOverlap(local[1].b, local[1].existing[2])
    /\ local[1].existing[2].End < local[1].existing[1].End
    /\ last.ret.val.SuggestedStart = Some(local[1].existing[1].End)

(* The positions of the occurrences the candidate overlaps. *)
OverlappedAt(candidate, existing) ==
    {i \in 1..Len(existing) :
        IntervalsOverlap(candidate.Start, candidate.End, existing[i].Start, existing[i].End)}

(* C39: the resolution of the Preempt strategy is a failure with an empty   *)
(* preemption list when an occurrence the candidate overlaps has an owner   *)
(* priority not below the actor's, whatever the other occurrences are;      *)
(* otherwise it succeeds and lists the identifiers of the overlapped        *)
(* occurrences, all of lower priority, in the order of the vector.          *)
C39_PreemptAllOrNothing ==
    last.op = "Preempt" =>
        LET existing == last.req.Existing
            ov == OverlappedAt(last.req.Candidate, existing)
            res == last.ret.val
        IN IF \E i \in ov : existing[i].OwnerPriority >= last.actor.Priority
           THEN res.ok = FALSE /\ res.ToPreempt = <<>>
           ELSE /\ res.ok
                /\ Len(res.ToPreempt) = Cardinality(ov)
                /\ \A i \in ov :
                      /\ res.ToPreempt[Cardinality({j \in ov : j <= i})] = existing[i].Id
                      /\ existing[i].OwnerPriority < last.actor.Priority

(* A veto by the second overlapped occurrence after the first one could     *)
(* have been preempted.                                                     *)
C39_Witness ==
    /\ last.op = "Preempt"
    /\ last.ret.val.ok = FALSE
    /\ Len(last.req.Existing) >= 2
    /\ {1, 2} \subseteq OverlappedAt(last.req.Candidate, last.req.Existing)
    /\ last.req.Existing[1].OwnerPriority < last.actor.Priority
    /\ last.req.Existing[2].OwnerPriority >= last.actor.Priority

(* The booking set, in the JSON form the journal carries, that the first n  *)
(* journal entries build from the empty set.                                *)
RECURSIVE Replay(_, _)
Replay(j, n) ==
    IF n = 0 THEN <<>>
    ELSE LET B == Replay(j, n - 1)
             je == j[n]
         IN IF je.op \in {"create", "update"} THEN Put(B, je.booking.id, je.booking)
            ELSE IF je.op = "remove" THEN Erase(B, je.id)
            ELSE B

(* C40: replaying the journal in order from the empty booking set, create   *)
(* and update inserting the entry's booking under its identifier and remove *)
(* deleting the identifier, gives the live booking set in its JSON form,    *)
(* after any sequence of Create, Modify, Cancel, Undo and Redo.             *)
C40_JournalReplaysLiveSet ==
    LET B == Replay(journal, Len(journal))
    IN /\ DOMAIN B = LiveIds
       /\ \A k \in LiveIds : B[k] = BookingToJson(Bookings[k])

(* After an undo or a redo, with entries of the three kinds in the journal  *)
(* and a modified booking live.                                             *)
C40_Witness ==
    /\ last.op \in {"Undo", "Redo"} /\ last.ret # RetNone
    /\ {journal[i].op : i \in 1..Len(journal)} = {"create", "update", "remove"}
    /\ \E k \in LiveIds : Bookings[k].Title = "retitled"

====
